---- MODULE Spec2Model ----
(***************************************************************************)
(* State-machine model of the sweet-jsPsych stimulus plugins.              *)
(*                                                                         *)
(* Numbers.  Fractions (gray, alpha, contrast, duty, bg_gray) are kept in  *)
(* fixed point: the integer n stands for n / One.  Pixel and degree        *)
(* quantities are integers.  Only gamma = 1 is modelled, so that           *)
(* Math.pow(g, 1 / gamma) is g.                                            *)
(*                                                                         *)
(* Objects.  A JavaScript object is a function from field names to values; *)
(* a field that is undefined or null is a field outside the DOMAIN.        *)
(***************************************************************************)
EXTENDS Integers, Sequences, FiniteSets, TLC

VARIABLES
    plugin,     \* which plugin class runs the trial
    pc,         \* position inside trial()
    trial,      \* the trial parameter object handed in by the host
    items,      \* symbol: the list returned by normalizeItems, then sorted
    k,          \* symbol: number of items of `items` already drawn
    canvas,     \* the visible canvas: pixel -> displayed intensity 0..255
    patches,    \* gabor-array: the list returned by preparePatches
    floatBuf,   \* gabor-array: linear-intensity accumulation buffer
    display_element,   \* what the host's display element holds: "" or "canvas"
    keyboardListener,  \* field of the plugin: "null" or the listener handle
    endTimeout,        \* field of the plugin: "null" or the timer id
    pluginAPI,         \* keyboard listeners registered with jsPsych.pluginAPI
    listeners,         \* mousedown listeners registered on the canvas
    timers,            \* timers pending in the window
    finishTrial,       \* the data objects handed to jsPsych.finishTrial, in order
    ctx,               \* what canvas.getContext("2d") gives in this host: "2d" or "null"
    presses,           \* the valid key and mouse presses the participant has made
    origin,            \* performance.now() when trial() is called, in clock ticks
    now,               \* milliseconds elapsed since trial() was called
    rsvp,              \* rsvp: the variables of the closure of trial()
    trolley            \* trolley-problem: the variables of the closure of trial()

vars == <<plugin, pc, trial, items, k, canvas, patches, floatBuf,
          display_element, keyboardListener, endTimeout, pluginAPI, listeners, timers,
          finishTrial, ctx, presses, origin, now, rsvp, trolley>>
\* what trial() touches only after the stimulus is drawn
respVars == <<keyboardListener, endTimeout, pluginAPI, listeners, timers, finishTrial>>
\* the host's clock and the closures of the other plugins
hostVars == <<ctx, origin, now, rsvp, trolley>>
\* what the rendering statements of trial() work on
drawVars == <<plugin, trial, items, k, canvas, patches, floatBuf>>

(***************************************************************************)
(* Bounds of the model                                                     *)
(***************************************************************************)
One     == 1000     \* fixed-point unit: the fraction 1.0
CanvasW == 12       \* trial.canvas_width  used in the model
CanvasH == 12       \* trial.canvas_height used in the model
TicksPerMs == 2     \* resolution of performance.now(): clock ticks per millisecond
MaxNow   == 6       \* milliseconds of a trolley-problem trial that are followed
MaxCalls == 3       \* finishTrial calls of one trial that are followed
MantissaBits == 6   \* significant bits of a floating-point number (a double has 53)
MaxPresses == 2     \* key presses of one RSVP trial that are followed

(***************************************************************************)
(* Generic helpers                                                         *)
(***************************************************************************)
Has(o, f)    == f \in DOMAIN o
\* o.f ?? d
Get(o, f, d) == IF f \in DOMAIN o THEN o[f] ELSE d
Empty        == [x \in {} |-> 0]
Fld(name, v) == name :> v

Max2(a, b) == IF a >= b THEN a ELSE b
Min2(a, b) == IF a <= b THEN a ELSE b
Abs(a)     == IF a < 0 THEN -a ELSE a

\* Math.round(n / d) for d > 0: nearest integer, halves towards +infinity
RoundDiv(n, d) == (2 * n + d) \div (2 * d)
\* Math.ceil(n / d) for d > 0
CeilDiv(n, d)  == -((-n) \div d)
\* Math.floor(Math.sqrt(n)) for n >= 0
RECURSIVE IsqrtIn(_, _, _)
IsqrtIn(n, lo, hi) ==
    IF hi - lo <= 1 THEN lo
    ELSE LET mid == (lo + hi) \div 2
         IN  IF mid * mid <= n THEN IsqrtIn(n, mid, hi) ELSE IsqrtIn(n, lo, mid)
Isqrt(n) == IsqrtIn(n, 0, Min2(n, 46340) + 1)
\* Math.ceil(Math.sqrt(n)) for n >= 0
CeilSqrt(n) == IF Isqrt(n) * Isqrt(n) = n THEN Isqrt(n) ELSE Isqrt(n) + 1

\* Math.round(Math.pow(g, 1 / gamma) * 255) with gamma = 1, g in units of One
ToByte(g) == RoundDiv(g * 255, One)

(***************************************************************************)
(* symbol plugin: helpers                                                  *)
(***************************************************************************)
\* mutant: no clamping
clamp01_identity(x) == x
\* const clamp01 = (x) => Math.max(0, Math.min(1, x))
clamp01(x) == IF x < 0 THEN 0 ELSE IF x > One THEN One ELSE x

\* mutant: the degree field is consulted first
PxDeg_degreeFirst(raw, px, deg, ppd, dflt) ==
    IF Has(raw, deg) THEN raw[deg] * ppd
    ELSE IF Has(raw, px) THEN raw[px]
    ELSE dflt
\* raw.<px> ?? (raw.<deg> != null ? raw.<deg> * ppd : dflt)
PxDeg(raw, px, deg, ppd, dflt) ==
    IF Has(raw, px) THEN raw[px]
    ELSE IF Has(raw, deg) THEN raw[deg] * ppd
    ELSE dflt

\* the same with dflt = null: the result field is absent when both are absent
PxDegOpt(name, raw, px, deg, ppd) ==
    IF Has(raw, px) THEN Fld(name, raw[px])
    ELSE IF Has(raw, deg) THEN Fld(name, raw[deg] * ppd)
    ELSE Empty

OptCopy(name, raw, f) == IF Has(raw, f) THEN Fld(name, raw[f]) ELSE Empty

\* a JavaScript number used as a condition: null, undefined and 0 are falsy
Truthy(o, f) == Has(o, f) /\ o[f] # 0

\* String.prototype.toLowerCase on the kind and key names that occur with capitals
LowerCaseOf == [Circle |-> "circle", RECT |-> "rect", Triangle |-> "triangle", Texture |-> "texture",
                F |-> "f", J |-> "j"]
toLowerCase(str) == IF str \in DOMAIN LowerCaseOf THEN LowerCaseOf[str] ELSE str

(***************************************************************************)
(* symbol plugin: legacyToItems                                            *)
(***************************************************************************)
\* mutant: the trial-level size is not read
legacyToItems_fixedSize(t) ==
    IF ~Has(t, "kind") \/ t.kind = "" THEN <<>>
    ELSE << [kind |-> "circle", radius_px |-> 40] >>
\* private legacyToItems(trial)
legacyToItems(t) ==
    IF ~Has(t, "kind") \/ t.kind = "" THEN <<>>
    ELSE
      LET ppd     == Get(t, "px_per_deg", 60)
          size_px == PxDeg(t, "size_px", "size_deg", ppd, 80)
          kk      == toLowerCase(t.kind)
      IN  IF kk = "annulus" THEN
              << [kind |-> "annulus", outer_px |-> size_px \div 2, inner_px |-> size_px \div 4] >>
          ELSE IF kk = "rectframe" THEN
              << [kind |-> "rectframe", width_px |-> size_px, height_px |-> size_px, stroke_px |-> 2] >>
          ELSE IF kk = "stripe" THEN
              << [kind |-> "stripe", stripe_len_px |-> (size_px * 3) \div 2,
                  stripe_w_px |-> Max2(4, size_px \div 10)] >>
          ELSE IF kk = "rect" THEN
              << [kind |-> "rect", width_px |-> size_px, height_px |-> size_px] >>
          ELSE IF kk = "cross" THEN
              << [kind |-> "cross", arm_len_px |-> size_px \div 2,
                  arm_w_px |-> Max2(4, (size_px * 8) \div 100)] >>
          ELSE << [kind |-> "circle", radius_px |-> size_px \div 2] >>


(***************************************************************************)
(* symbol plugin: normalizeItems (plugins/symbol, version 0.6.0)           *)
(***************************************************************************)
\* the `base` object literal
normBase(raw, t, ppd) ==
    [ kind         |-> Get(raw, "kind", "undefined"),
      x_px         |-> PxDeg(raw, "x_px", "x_deg", ppd, 0),
      y_px         |-> PxDeg(raw, "y_px", "y_deg", ppd, 0),
      z            |-> Get(raw, "z", 0),
      blend        |-> Get(raw, "blend", "source-over"),
      gray         |-> clamp01(Get(raw, "gray", t.bg_gray)),
      alpha        |-> clamp01(Get(raw, "alpha", One)),
      rotation_deg |-> Get(raw, "rotation_deg", 0),
      stroke_px    |-> Get(raw, "stroke_px", 2),
      window       |-> Get(raw, "mask", Get(raw, "window", "none")) ]
    @@ OptCopy("label", raw, "label")
    @@ OptCopy("box", raw, "box")
    @@ PxDegOpt("win_radius_px", raw, "win_radius_px", "win_radius_deg", ppd)
    @@ PxDegOpt("win_sigma_px",  raw, "win_sigma_px",  "win_sigma_deg",  ppd)
    @@ PxDegOpt("win_rect_w_px", raw, "win_rect_w_px", "win_rect_w_deg", ppd)
    @@ PxDegOpt("win_rect_h_px", raw, "win_rect_h_px", "win_rect_h_deg", ppd)

\* "normalize alias" and "infer window kind if not provided"
inferWindow(base) ==
    LET w0 == IF base.window = "circle" THEN "circular" ELSE base.window
    IN  IF w0 = "none" \/ w0 = ""
        THEN IF Has(base, "win_radius_px") THEN "circular"
             ELSE IF Has(base, "win_rect_w_px") \/ Has(base, "win_rect_h_px") THEN "rect"
             ELSE w0
        ELSE w0

\* texture box: wantCanvas / wantCover / explicit size.
\* Math.ceil(2 * R * Math.SQRT2) is ceil(sqrt(8 R^2)) for an integer R >= 0.
textureBox(raw, base, ppd, CW, CH) ==
    LET wantCanvas == (Has(base, "box") /\ base.box = "canvas") \/ ~Has(base, "box")
        wantCover  == Has(base, "box") /\ base.box = "cover-window" /\ Truthy(base, "win_radius_px")
    IN  IF wantCanvas THEN [box_w_px |-> CW, box_h_px |-> CH]
        ELSE IF wantCover THEN
            LET side == CeilSqrt(8 * base.win_radius_px * base.win_radius_px) + 2
            IN  [box_w_px |-> side, box_h_px |-> side]
        ELSE [box_w_px |-> PxDeg(raw, "box_w_px", "box_w_deg", ppd, CW),
              box_h_px |-> PxDeg(raw, "box_h_px", "box_h_deg", ppd, CH)]

\* mutant: the default branch keeps the kind it was given
defaultDisc_keepKind(base) == base @@ [radius_px |-> 40, fill |-> TRUE]
\* default: base.kind = "circle"; base.radius_px = 40; base.fill = true
defaultDisc(base) == [base EXCEPT !.kind = "circle"] @@ [radius_px |-> 40, fill |-> TRUE]

\* the switch on base.kind; rnd is the value of Math.floor(Math.random()*1e9)
normShape(raw, base, ppd, CW, CH, rnd) ==
    IF base.kind = "circle" THEN
        base @@ [radius_px |-> PxDeg(raw, "radius_px", "radius_deg", ppd, 40),
                 fill      |-> Get(raw, "fill", TRUE)]
    ELSE IF base.kind = "annulus" THEN
        base @@ [inner_px |-> PxDeg(raw, "inner_px", "inner_deg", ppd, 0),
                 outer_px |-> PxDeg(raw, "outer_px", "outer_deg", ppd, 60)]
    ELSE IF base.kind \in {"rect", "rectframe"} THEN
        base @@ [width_px  |-> PxDeg(raw, "width_px",  "width_deg",  ppd, 120),
                 height_px |-> PxDeg(raw, "height_px", "height_deg", ppd, 120),
                 corner_radius_px |-> Max2(0, Get(raw, "corner_radius_px", 0))]
    ELSE IF base.kind = "stripe" THEN
        base @@ [stripe_len_px |-> PxDeg(raw, "stripe_len_px", "stripe_len_deg", ppd, 300),
                 stripe_w_px   |-> PxDeg(raw, "stripe_w_px",   "stripe_w_deg",   ppd, 12)]
    ELSE IF base.kind = "cross" THEN
        base @@ [arm_len_px |-> PxDeg(raw, "arm_len_px", "arm_len_deg", ppd, 40),
                 arm_w_px   |-> PxDeg(raw, "arm_w_px",   "arm_w_deg",   ppd, 6)]
    ELSE IF base.kind = "texture" THEN
        IF Get(raw, "mode", "undefined") = "noise" THEN
            base @@ textureBox(raw, base, ppd, CW, CH)
                 @@ [mode     |-> "noise",
                     contrast |-> clamp01(Get(raw, "contrast", One \div 2)),
                     seed     |-> Get(raw, "seed", rnd)]
        ELSE
            base @@ textureBox(raw, base, ppd, CW, CH)
                 @@ [mode            |-> "stripes",
                     orientation_deg |-> Get(raw, "orientation_deg", 0),
                     bar_w_px        |-> PxDeg(raw, "bar_w_px", "bar_w_deg", ppd, RoundDiv(2 * ppd, 10)),
                     duty            |-> clamp01(Get(raw, "duty", One \div 2)),
                     phase_deg       |-> Get(raw, "phase_deg", 0),
                     contrast        |-> clamp01(Get(raw, "contrast", (6 * One) \div 10))]
    ELSE defaultDisc(base)

normalizeItem(raw, t, rnd) ==
    LET ppd   == Get(t, "px_per_deg", 60)
        base0 == normBase(raw, t, ppd)
        base  == [base0 EXCEPT !.window = inferWindow(base0)]
    IN  normShape(raw, base, ppd, t.canvas_width, t.canvas_height, rnd)

\* rnds[i] is the random draw available to item i
normalizeItems(t, rnds) ==
    LET src == IF Has(t, "items") /\ Len(t.items) > 0 THEN t.items ELSE legacyToItems(t)
    IN  [i \in 1..Len(src) |-> normalizeItem(src[i], t, rnds[i])]

(***************************************************************************)
(* Canvas 2D geometry.  A transform is the matrix [a c e; b d f] of the    *)
(* canvas API.  Rotations are multiples of 90 degrees, for which cos and   *)
(* sin are integers; points are handled in doubled coordinates so that the *)
(* centre (X + 1/2, Y + 1/2) of pixel (X, Y) is the integer point          *)
(* (2X + 1, 2Y + 1).  A pixel takes the colour of whatever covers its      *)
(* centre (no anti-aliasing, nearest-neighbour drawImage).                 *)
(***************************************************************************)
\* Math.cos(deg2rad(d)) and Math.sin(deg2rad(d)) for d a multiple of 90
Cos90(d) == LET m == d % 360 IN IF m = 0 THEN 1 ELSE IF m = 180 THEN -1 ELSE 0
Sin90(d) == LET m == d % 360 IN IF m = 90 THEN 1 ELSE IF m = 270 THEN -1 ELSE 0

IdentityM == [a |-> 1, b |-> 0, c |-> 0, d |-> 1, e |-> 0, f |-> 0]

\* M * N : N is applied first
MulM(M, N) ==
    [ a |-> M.a * N.a + M.c * N.b,
      b |-> M.b * N.a + M.d * N.b,
      c |-> M.a * N.c + M.c * N.d,
      d |-> M.b * N.c + M.d * N.d,
      e |-> M.a * N.e + M.c * N.f + M.e,
      f |-> M.b * N.e + M.d * N.f + M.f ]

\* ctx.translate(tx, ty) and ctx.rotate(deg2rad(deg)) on the current matrix M
translate(M, tx, ty) == MulM(M, [a |-> 1, b |-> 0, c |-> 0, d |-> 1, e |-> tx, f |-> ty])
rotate(M, deg) ==
    MulM(M, [a |-> Cos90(deg), b |-> Sin90(deg), c |-> -Sin90(deg), d |-> Cos90(deg),
             e |-> 0, f |-> 0])

\* the image of the local point (x, y)
ApplyM(M, x, y) == <<M.a * x + M.c * y + M.e, M.b * x + M.d * y + M.f>>

\* the local point (doubled) whose image is the doubled point (X2, Y2);
\* the linear part of M is a rotation, so its inverse is its transpose
InvM2(M, X2, Y2) ==
    << M.a * (X2 - 2 * M.e) + M.b * (Y2 - 2 * M.f),
       M.c * (X2 - 2 * M.e) + M.d * (Y2 - 2 * M.f) >>

\* index of the pixel whose centre is the doubled coordinate c2 (c2 is odd)
PixOf(c2) == (c2 - 1) \div 2

Pixels(W, H) == (0..(W - 1)) \X (0..(H - 1))

(***************************************************************************)
(* symbol plugin: drawPrimitiveInto.  InPrimitive(it, l) holds when the    *)
(* local doubled point l lies in the shape painted for item it.            *)
(***************************************************************************)
InRect2(l, w, h) == -w <= l[1] /\ l[1] < w /\ -h <= l[2] /\ l[2] < h

\* rounded rectangle of size w x h with corner radius r (path built with arcTo)
InRoundRect2(l, w, h, r) ==
    LET rr2 == Min2(2 * r, Min2(w, h))
        ax  == Abs(l[1]) - (w - rr2)
        ay  == Abs(l[2]) - (h - rr2)
    IN  /\ InRect2(l, w, h)
        /\ (r > 0 /\ ax > 0 /\ ay > 0) => (ax * ax + ay * ay <= rr2 * rr2)

Dist2(l) == l[1] * l[1] + l[2] * l[2]

InPrimitive(it, l) ==
    IF it.kind = "circle" THEN
        IF Get(it, "fill", TRUE)
        THEN Dist2(l) <= 4 * it.radius_px * it.radius_px
        ELSE /\ Dist2(l) <= (2 * it.radius_px + it.stroke_px) * (2 * it.radius_px + it.stroke_px)
             /\ \/ 2 * it.radius_px <= it.stroke_px
                \/ Dist2(l) >= (2 * it.radius_px - it.stroke_px) * (2 * it.radius_px - it.stroke_px)
    ELSE IF it.kind = "annulus" THEN
        (Dist2(l) <= 4 * it.outer_px * it.outer_px) # (Dist2(l) <= 4 * it.inner_px * it.inner_px)
    ELSE IF it.kind = "rect" THEN
        InRoundRect2(l, it.width_px, it.height_px, it.corner_radius_px)
    ELSE IF it.kind = "rectframe" THEN
        /\ InRoundRect2(l, it.width_px + it.stroke_px, it.height_px + it.stroke_px, it.corner_radius_px)
        /\ ~InRect2(l, it.width_px - it.stroke_px, it.height_px - it.stroke_px)
    ELSE IF it.kind = "stripe" THEN
        InRect2(l, it.stripe_len_px, it.stripe_w_px)
    ELSE IF it.kind = "cross" THEN
        \/ InRect2(l, it.arm_w_px, it.arm_len_px)
        \/ InRect2(l, it.arm_len_px, it.arm_w_px)
    ELSE FALSE

(***************************************************************************)
(* symbol plugin: drawTextureInto (stripes).  TexturePixel is the byte     *)
(* written at pixel (x, y) of the W x H texture image.                     *)
(*   xn / barW + phase * 2  is compared modulo 2 with 2 * duty; here both  *)
(* sides are multiplied by 360 * barW (and by One for the duty).           *)
(***************************************************************************)
\* mutant: the byte is truncated instead of rounded
stripesPixel_truncated(it, W, H, x, y) ==
    LET duty  == clamp01(Get(it, "duty", One \div 2))
        barW  == Max2(1, it.bar_w_px)
        g0    == clamp01(it.gray)
        amp   == clamp01(Get(it, "contrast", (6 * One) \div 10))
        ct    == Cos90(Get(it, "orientation_deg", 0))
        st    == Sin90(Get(it, "orientation_deg", 0))
        xn2   == (2 * x - W) * ct + (2 * y - H) * st
        t     == (180 * xn2 + 2 * barW * Get(it, "phase_deg", 0)) % (720 * barW)
        isDark == t * One < 720 * barW * duty
        vlin2 == IF isDark THEN 2 * g0 - amp ELSE 2 * g0 + amp
        c2    == IF vlin2 < 0 THEN 0 ELSE IF vlin2 > 2 * One THEN 2 * One ELSE vlin2
    IN  (c2 * 255) \div (2 * One)
\* the "stripes covering entire box" branch
stripesPixel(it, W, H, x, y) ==
    LET duty  == clamp01(Get(it, "duty", One \div 2))
        barW  == Max2(1, it.bar_w_px)
        g0    == clamp01(it.gray)
        amp   == clamp01(Get(it, "contrast", (6 * One) \div 10))
        ct    == Cos90(Get(it, "orientation_deg", 0))
        st    == Sin90(Get(it, "orientation_deg", 0))
        xn2   == (2 * x - W) * ct + (2 * y - H) * st
        t     == (180 * xn2 + 2 * barW * Get(it, "phase_deg", 0)) % (720 * barW)
        isDark == t * One < 720 * barW * duty
        vlin2 == IF isDark THEN 2 * g0 - amp ELSE 2 * g0 + amp
        c2    == IF vlin2 < 0 THEN 0 ELSE IF vlin2 > 2 * One THEN 2 * One ELSE vlin2
    IN  RoundDiv(c2 * 255, 2 * One)

(***************************************************************************)
(* 32-bit integer arithmetic of JavaScript (>>>, ^, |, Math.imul).  A word *)
(* is the pair <<high 16 bits, low 16 bits>>.                              *)
(***************************************************************************)
Half == 65536

ToWord(n) == <<(n \div Half) % Half, n % Half>>

Bit(a, i) == (a \div (2 ^ i)) % 2
\* bitwise a ^ b and a | b on the n low bits
RECURSIVE Xor16(_, _, _)
Xor16(a, b, n) ==
    IF n = 0 THEN 0
    ELSE Xor16(a, b, n - 1) + (IF Bit(a, n - 1) # Bit(b, n - 1) THEN 2 ^ (n - 1) ELSE 0)
RECURSIVE Or16(_, _, _)
Or16(a, b, n) ==
    IF n = 0 THEN 0
    ELSE Or16(a, b, n - 1) + (IF Bit(a, n - 1) + Bit(b, n - 1) > 0 THEN 2 ^ (n - 1) ELSE 0)

Xor32(x, y) == <<Xor16(x[1], y[1], 16), Xor16(x[2], y[2], 16)>>
\* x | c for a constant 0 <= c < 65536
OrLow(x, c) == <<x[1], Or16(x[2], c, 16)>>
\* x >>> n for 0 < n < 16
Shr32(x, n) == <<x[1] \div (2 ^ n), (x[2] \div (2 ^ n)) + (x[1] % (2 ^ n)) * (2 ^ (16 - n))>>
Add32(x, y) ==
    LET lo == x[2] + y[2]
    IN  <<(x[1] + y[1] + lo \div Half) % Half, lo % Half>>
\* (a * b) mod 2^16 and the full product a * b as a word, for a, b < 2^16
MulLow16(a, b) == (a * (b % 256) + ((a * (b \div 256)) % 256) * 256) % Half
Mul16(a, b) ==
    LET p0 == a * (b % 256)
        p1 == a * (b \div 256)
        lo == p0 + (p1 % 256) * 256
    IN  <<(p1 \div 256 + lo \div Half) % Half, lo % Half>>
\* Math.imul(x, y)
Imul(x, y) ==
    LET ll == Mul16(x[2], y[2])
    IN  <<(ll[1] + MulLow16(x[1], y[2]) + MulLow16(x[2], y[1])) % Half, ll[2]>>

\* the n-th value (n >= 1) returned by the generator mulberry32(a), as a word:
\* the state is advanced by 0x6d2b79f5 at each call
mulberry32(a, n) ==
    LET t0 == Add32(a, Imul(ToWord(n), <<27947, 31221>>))
        t1 == Imul(Xor32(t0, Shr32(t0, 15)), OrLow(t0, 1))
        t2 == Xor32(t1, Add32(t1, Imul(Xor32(t1, Shr32(t1, 7)), OrLow(t1, 61))))
    IN  Xor32(t2, Shr32(t2, 14))

\* mutant: the generator state also depends on where the item is drawn
noiseSeed_perPlace(it) == ToWord((IF it.seed = 0 THEN 1 ELSE it.seed) + Abs(it.x_px))
\* (it.seed || 1) >>> 0 for a seed 0 <= seed < 2^31
noiseSeed(it) == ToWord(IF it.seed = 0 THEN 1 ELSE it.seed)

\* drawTextureInto (noise): byte of pixel i = y * W + x.  rand() is taken to
\* 12 bits (u / 4096); n = (rand() - 0.5) * amp; vlin = clamp01(g0 + n).
noisePixel(it, W, H, x, y) ==
    LET u    == mulberry32(noiseSeed(it), y * W + x + 1)[1] \div 16
        amp  == clamp01(Get(it, "contrast", One \div 2))
        g0   == clamp01(it.gray)
        v    == 4096 * g0 + (u - 2048) * amp
        c    == IF v < 0 THEN 0 ELSE IF v > 4096 * One THEN 4096 * One ELSE v
    IN  RoundDiv(c * 255, 4096 * One)

TexturePixel(it, W, H, x, y) ==
    IF it.mode = "noise" THEN noisePixel(it, W, H, x, y) ELSE stripesPixel(it, W, H, x, y)

\* the texture image is drawn at (-round(W/2), -round(H/2)) of the local frame;
\* result: <<value, alpha>> at the local doubled point l
drawTextureInto(it, l) ==
    LET W  == Max2(2, it.box_w_px)
        H  == Max2(2, it.box_h_px)
        tx == PixOf(l[1]) + RoundDiv(W, 2)
        ty == PixOf(l[2]) + RoundDiv(H, 2)
    IN  IF tx \in 0..(W - 1) /\ ty \in 0..(H - 1)
        THEN <<TexturePixel(it, W, H, tx, ty), 255>>
        ELSE <<0, 0>>

(***************************************************************************)
(* symbol plugin: applyWindowMask                                          *)
(***************************************************************************)
\* One * 2^(-f / 1000) for 0 <= f < 1000, quadratic fit (error below 0.5 %)
Pow2NegFrac(f) ==
    ((1000 - (6565 * f) \div 10000 + (((1565 * f) \div 1000) * f) \div 10000) * One) \div 1000

\* One * Math.exp(-n / d), n >= 0, d > 0, through exp(-u) = 2^(-u * log2(e))
ExpNeg(n, d) ==
    LET w == (n * 1443) \div d
        i == w \div 1000
    IN  IF i > 20 THEN 0 ELSE Pow2NegFrac(w % 1000) \div (2 ^ i)

\* One * 0.5 * (1 + Math.cos(Math.PI * r / R)) for r2 = r^2 <= R^2, written as
\* cos^2(pi r / 2R) with Bhaskara's rational cosine (error below 0.4 %)
RaisedCos(r2, R) ==
    LET num == 4 * (R * R - r2)
        den == 4 * R * R + r2
    IN  (((num * One) \div den) * num) \div den

\* Math.max(1, it.win_sigma_px ?? (gaussian ? R/3 : R/2)) squared, as <<num, den>>
sigma2(it, R) ==
    IF Has(it, "win_sigma_px") THEN
        <<Max2(1, it.win_sigma_px) * Max2(1, it.win_sigma_px), 1>>
    ELSE IF it.window = "gaussian" THEN (IF R > 3 THEN <<R * R, 9>> ELSE <<1, 1>>)
    ELSE (IF R > 2 THEN <<R * R, 4>> ELSE <<1, 1>>)

\* the value a computed for the pixel (x, y), -R <= x, y <= R, of the soft mask image
softProfile(it, R, x, y) ==
    LET r2 == x * x + y * y
        s2 == sigma2(it, R)
    IN  IF it.window = "gaussian" THEN ExpNeg(r2 * s2[2], 2 * s2[1])
        ELSE IF r2 <= R * R THEN RaisedCos(r2, R) ELSE 0

\* d[j+3] = Math.round(255 * clamp01(a))
softAlpha(it, R, x, y) == RoundDiv(255 * clamp01(softProfile(it, R, x, y)), One)

windowRadius(it, W, H) ==
    Max2(2, IF Has(it, "win_radius_px") THEN it.win_radius_px ELSE RoundDiv(Min2(W, H), 4))

\* the transform under which the mask is painted on the mask canvas
maskTransform(it, W, H) ==
    rotate(translate(IdentityM, RoundDiv(W + 2 * it.x_px, 2), RoundDiv(H + 2 * it.y_px, 2)),
           it.rotation_deg)

\* alpha (0..255) of the mask canvas at pixel B of the W x H buffer
maskAlpha(it, W, H, B) ==
    LET l == InvM2(maskTransform(it, W, H), 2 * B[1] + 1, 2 * B[2] + 1)
        R == windowRadius(it, W, H)
    IN  IF it.window = "circular" THEN
            (IF Dist2(l) <= 4 * R * R THEN 255 ELSE 0)
        ELSE IF it.window \in {"raisedcos", "gaussian"} THEN
            (IF PixOf(l[1]) \in (-R)..R /\ PixOf(l[2]) \in (-R)..R
             THEN softAlpha(it, R, PixOf(l[1]), PixOf(l[2]))
             ELSE 0)
        ELSE IF it.window = "rect" THEN
            LET w == Max2(2, IF Has(it, "win_rect_w_px") THEN it.win_rect_w_px
                             ELSE RoundDiv(Min2(W, H), 2))
                h == Max2(2, IF Has(it, "win_rect_h_px") THEN it.win_rect_h_px
                             ELSE RoundDiv(Min2(W, H), 2))
            IN  (IF InRect2(l, w, h) THEN 255 ELSE 0)
        ELSE 0

\* "destination-in": the buffer keeps its colour, its alpha is multiplied by the mask
applyWindowMask(it, W, H, B, px) == <<px[1], (px[2] * maskAlpha(it, W, H, B)) \div 255>>

(***************************************************************************)
(* symbol plugin: drawItem                                                 *)
(***************************************************************************)
needsBuffer(it) == it.kind = "texture" \/ (it.window # "" /\ it.window # "none")

\* ctx.translate(round(W/2 + x_px), round(H/2 + y_px)); ctx.rotate(rotation)
itemTransform(it, W, H) ==
    rotate(translate(IdentityM, RoundDiv(W + 2 * it.x_px, 2), RoundDiv(H + 2 * it.y_px, 2)),
           it.rotation_deg)

\* octx.translate(round(bufW/2), round(bufH/2)); octx.rotate(rotation)
bufferTransform(it, W, H) ==
    rotate(translate(IdentityM, RoundDiv(W, 2), RoundDiv(H, 2)), it.rotation_deg)

\* ctx.drawImage(off, -round(bufW/2), -round(bufH/2)) under the item transform:
\* the map from buffer coordinates to the visible canvas
drawImageTransform(it, W, H) ==
    translate(itemTransform(it, W, H), -RoundDiv(W, 2), -RoundDiv(H, 2))

\* the map from the local frame in which the content is painted to the visible canvas
contentToOutput(it, W, H) ==
    IF needsBuffer(it)
    THEN MulM(drawImageTransform(it, W, H), bufferTransform(it, W, H))
    ELSE itemTransform(it, W, H)

\* the map from the local frame in which the mask is painted to the visible canvas
maskToOutput(it, W, H) == MulM(drawImageTransform(it, W, H), maskTransform(it, W, H))

\* content painted into the offscreen buffer at buffer pixel B: <<value, alpha>>
bufferContent(it, W, H, B) ==
    LET l == InvM2(bufferTransform(it, W, H), 2 * B[1] + 1, 2 * B[2] + 1)
    IN  IF it.kind = "texture" THEN drawTextureInto(it, l)
        ELSE IF InPrimitive(it, l) THEN <<ToByte(it.gray), 255>>
        ELSE <<0, 0>>

\* the offscreen buffer after the optional mask
bufferPixel(it, W, H, B) ==
    IF it.window # "" /\ it.window # "none"
    THEN applyWindowMask(it, W, H, B, bufferContent(it, W, H, B))
    ELSE bufferContent(it, W, H, B)

\* what the item paints over pixel P of the visible canvas: <<value, alpha>>
sourceAt(it, W, H, P) ==
    IF needsBuffer(it) THEN
        LET b2 == InvM2(drawImageTransform(it, W, H), 2 * P[1] + 1, 2 * P[2] + 1)
            B  == <<PixOf(b2[1]), PixOf(b2[2])>>
        IN  IF B \in Pixels(W, H) THEN bufferPixel(it, W, H, B) ELSE <<0, 0>>
    ELSE
        LET l == InvM2(itemTransform(it, W, H), 2 * P[1] + 1, 2 * P[2] + 1)
        IN  IF InPrimitive(it, l) THEN <<ToByte(it.gray), 255>> ELSE <<0, 0>>

\* globalAlpha and globalCompositeOperation.  "source-over" and "lighter" are
\* modelled; a string the canvas does not know leaves the default "source-over".
composite(dst, src, it) ==
    LET A == it.alpha * src[2]
        D == One * 255
    IN  IF it.blend = "lighter"
        THEN Min2(255, dst + RoundDiv(src[1] * A, D))
        ELSE RoundDiv(src[1] * A + dst * (D - A), D)

drawItem(cv, it, W, H) ==
    [P \in Pixels(W, H) |-> composite(cv[P], sourceAt(it, W, H, P), it)]

fillBackground(bg, W, H) == [P \in Pixels(W, H) |-> ToByte(clamp01(bg))]

(***************************************************************************)
(* items.sort((a, b) => a.z - b.z): Array.prototype.sort is stable         *)
(***************************************************************************)
RECURSIVE insertByZ(_, _)
insertByZ_descending(sorted, it) ==
    IF sorted = <<>> THEN <<it>>
    ELSE IF sorted[Len(sorted)].z - it.z >= 0 THEN Append(sorted, it)
    ELSE Append(insertByZ(SubSeq(sorted, 1, Len(sorted) - 1), it), sorted[Len(sorted)])

\* insert `it` behind every element e with e.z - it.z <= 0
insertByZ(sorted, it) ==
    IF sorted = <<>> THEN <<it>>
    ELSE IF sorted[Len(sorted)].z - it.z <= 0 THEN Append(sorted, it)
    ELSE Append(insertByZ(SubSeq(sorted, 1, Len(sorted) - 1), it), sorted[Len(sorted)])

RECURSIVE sortByZ(_)
sortByZ(s) ==
    IF s = <<>> THEN <<>>
    ELSE insertByZ(sortByZ(SubSeq(s, 1, Len(s) - 1)), s[Len(s)])

(***************************************************************************)
(* Responses and the end of a trial (both plugins)                         *)
(***************************************************************************)
\* a freshly constructed plugin in a host that shows nothing yet
Idle ==
    /\ display_element = ""
    /\ keyboardListener = "null" /\ endTimeout = "null"
    /\ pluginAPI = {} /\ listeners = {} /\ timers = {}
    /\ finishTrial = <<>>
    /\ presses = {}
    /\ origin = 0 /\ now = 0
    /\ rsvp = <<>> /\ trolley = <<>>

\* info.parameters: the defaults the host fills in for absent parameters
SymbolDefaults == [end_on_response |-> FALSE, response_keys |-> <<>>, allow_mouse |-> FALSE]
GaborDefaults  == [end_on_response |-> TRUE, response_keys |-> <<"ArrowLeft", "ArrowRight">>,
                   allow_mouse |-> TRUE]
Param(f) ==
    IF Has(trial, f) THEN trial[f]
    ELSE IF plugin = "gabor-array" THEN GaborDefaults[f] ELSE SymbolDefaults[f]

\* const td = trial.timeout_ms ?? trial.trial_duration  (<<>> stands for null)
td ==
    IF Has(trial, "timeout_ms") THEN <<trial.timeout_ms>>
    ELSE IF Has(trial, "trial_duration") THEN <<trial.trial_duration>>
    ELSE <<>>

\* the statements of trial() after the drawing: keyboard, mouse, timer
installResponses ==
    /\ IF Len(Param("response_keys")) > 0
       THEN keyboardListener' = "listener" /\ pluginAPI' = pluginAPI \cup {"listener"}
       ELSE UNCHANGED <<keyboardListener, pluginAPI>>
    /\ listeners' = IF Param("allow_mouse")
                    THEN listeners \cup {[callback |-> "handler", once |-> Param("end_on_response")]}
                    ELSE listeners
    /\ IF td # <<>>
       THEN endTimeout' = "timer" /\ timers' = timers \cup {"timer"}
       ELSE UNCHANGED <<endTimeout, timers>>
    /\ pc' = "waiting"
    /\ UNCHANGED <<drawVars, display_element, finishTrial, hostVars, presses>>

\* clearTimersAndListeners, as it acts on the registered listeners api and
\* on the pending timers tms
cancelKeyboardResponse(api) ==
    IF keyboardListener # "null" THEN api \ {keyboardListener} ELSE api
clearTimeout_skipped(tms) == tms
clearTimeout(tms) ==
    IF endTimeout # "null" THEN tms \ {endTimeout} ELSE tms

\* end(): called from a callback that left the listeners api, lst and the
\* timers tms behind
end(data, api, lst, tms) ==
    /\ pluginAPI' = cancelKeyboardResponse(api)
    /\ keyboardListener' = "null"
    /\ timers' = clearTimeout(tms)
    /\ endTimeout' = "null"
    /\ listeners' = lst
    /\ display_element' = ""
    /\ finishTrial' = Append(finishTrial, data)
    /\ pc' = "finished"
    /\ UNCHANGED <<drawVars, hostVars>>

\* null is the empty tuple, a value v is <<v>>
Null == <<>>

\* keys the participant may press
Keys == {"f", "j", "ArrowLeft", "ArrowRight", "x"}
ValidKey(key) == \E n \in 1..Len(Param("response_keys")) : Param("response_keys")[n] = key

\* a key press reaches the listener registered with getKeyboardResponse
\* (persist: !end_on_response)
keyboardResponse(key, data) ==
    /\ pluginAPI # {} /\ ValidKey(key)
    /\ presses' = presses \cup {key}
    /\ IF Param("end_on_response")
       THEN end(data, {}, listeners, timers)
       ELSE UNCHANGED <<drawVars, hostVars, pc, display_element, respVars>>

\* a mouse press on the canvas, which receives it only while it is shown
mousedown(data) ==
    /\ display_element = "canvas" /\ listeners # {}
    /\ presses' = presses \cup {"mousedown"}
    /\ IF Param("end_on_response")
       THEN end(data, pluginAPI, {l \in listeners : ~l.once}, timers)
       ELSE UNCHANGED <<drawVars, hostVars, pc, display_element, respVars>>

\* the end timer fires
timeout(data) ==
    /\ timers # {}
    /\ end(data, pluginAPI, listeners, timers \ {"timer"})
    /\ UNCHANGED presses

(***************************************************************************)
(* symbol plugin: trial().  pc follows the statements of the method:       *)
(*   start -> (fillBackground) normalize -> sort -> draw ... -> rendered   *)
(*         -> (responses, timer) waiting -> (end) finished                 *)
(***************************************************************************)
\* values Math.floor(Math.random() * 1e9) takes in the model
RandomDraws == {0, 7}

SymBegin ==
    /\ plugin = "symbol" /\ pc = "start" /\ ctx = "2d"
    /\ canvas' = fillBackground(trial.bg_gray, trial.canvas_width, trial.canvas_height)
    /\ pc' = "normalize"
    /\ UNCHANGED <<plugin, trial, items, k, patches, floatBuf>>
    /\ display_element' = "canvas"
    /\ UNCHANGED <<respVars, hostVars, presses>>

\* if (!ctx) throw new Error("2D canvas not supported")
noContext ==
    /\ pc = "start" /\ ctx = "null"
    /\ display_element' = "canvas"
    /\ pc' = "error"
    /\ UNCHANGED <<drawVars, respVars, hostVars, presses>>

SymNoContext_ignored ==
    /\ plugin = "symbol" /\ pc = "start" /\ ctx = "null"
    /\ canvas' = fillBackground(trial.bg_gray, trial.canvas_width, trial.canvas_height)
    /\ display_element' = "canvas"
    /\ pc' = "normalize"
    /\ UNCHANGED <<plugin, trial, items, k, patches, floatBuf, respVars, hostVars, presses>>
SymNoContext ==
    /\ plugin = "symbol"
    /\ noContext

SymNormalize ==
    /\ plugin = "symbol" /\ pc = "normalize"
    /\ \E rnd \in RandomDraws :
          items' = normalizeItems(trial, [i \in 1..Len(Get(trial, "items", <<>>)) |-> rnd])
    /\ pc' = "sort"
    /\ UNCHANGED <<plugin, trial, k, canvas, patches, floatBuf>>
    /\ UNCHANGED <<display_element, respVars, hostVars, presses>>

SymSort ==
    /\ plugin = "symbol" /\ pc = "sort"
    /\ items' = sortByZ(items)
    /\ k' = 0
    /\ pc' = "draw"
    /\ UNCHANGED <<plugin, trial, canvas, patches, floatBuf>>
    /\ UNCHANGED <<display_element, respVars, hostVars, presses>>

\* one iteration of  for (const it of items) this.drawItem(trial, it)
SymDraw ==
    /\ plugin = "symbol" /\ pc = "draw" /\ k < Len(items)
    /\ canvas' = drawItem(canvas, items[k + 1], trial.canvas_width, trial.canvas_height)
    /\ k' = k + 1
    /\ UNCHANGED <<plugin, pc, trial, items, patches, floatBuf>>
    /\ UNCHANGED <<display_element, respVars, hostVars, presses>>

SymDrawDone ==
    /\ plugin = "symbol" /\ pc = "draw" /\ k = Len(items)
    /\ pc' = "rendered"
    /\ UNCHANGED <<plugin, trial, items, k, canvas, patches, floatBuf>>
    /\ UNCHANGED <<display_element, respVars, hostVars, presses>>

SymInstall_beforeDraw ==
    /\ plugin = "symbol" /\ pc = "draw" /\ k < Len(items)
    /\ installResponses
SymInstall ==
    /\ plugin = "symbol" /\ pc = "rendered"
    /\ installResponses

SymKeyboard ==
    /\ plugin = "symbol"
    /\ \E key \in Keys : keyboardResponse(key, [resp_key |-> key, rt |-> "number"])
SymMouseDown ==
    /\ plugin = "symbol"
    /\ mousedown([resp_key |-> "null", rt |-> "null"])
SymTimeout ==
    /\ plugin = "symbol"
    /\ timeout([resp_key |-> "null", rt |-> "null"])

NextSymbol ==
    \/ SymBegin \/ SymNoContext \/ SymNormalize \/ SymSort \/ SymDraw \/ SymDrawDone
    \/ SymInstall \/ SymKeyboard \/ SymMouseDown \/ SymTimeout

(***************************************************************************)
(* Trial parameter objects given to the symbol plugin                      *)
(***************************************************************************)
SymTrial(its) ==
    [canvas_width |-> CanvasW, canvas_height |-> CanvasH, bg_gray |-> One \div 2,
     gamma |-> 1, items |-> its]

\* layering: overlapping primitives with every combination of z, alpha and blend
ZFields     == {Empty, [z |-> 1], [z |-> -1]}
AlphaFields == {Empty, [alpha |-> One \div 2], [blend |-> "lighter"]}
ShapeA == [kind |-> "circle", radius_px |-> 3, x_px |-> -1, gray |-> One \div 5]
ShapeB == [kind |-> "rect", width_px |-> 6, height_px |-> 4, x_px |-> 1, y_px |-> 1,
           gray |-> (4 * One) \div 5]
ShapeC == [kind |-> "cross", arm_len_px |-> 8, arm_w_px |-> 2, rotation_deg |-> 90, gray |-> One]
LayerItems(sh) == { sh @@ zf @@ af : zf \in ZFields, af \in AlphaFields }
LayerTrials ==
    { SymTrial(<<a, b>>) : a \in LayerItems(ShapeA), b \in LayerItems(ShapeB) }
    \cup { SymTrial(<<a, b, c>>) : a \in {ShapeA @@ zf : zf \in ZFields},
                                   b \in {ShapeB @@ zf : zf \in ZFields},
                                   c \in {ShapeC @@ zf : zf \in ZFields} }

\* timing and response parameters of a trial
ResponseFields ==
    { [end_on_response |-> eor, response_keys |-> keys, allow_mouse |-> am] @@ tm :
        eor \in BOOLEAN, keys \in {<<>>, <<"f", "j">>}, am \in BOOLEAN,
        tm \in {Empty, [timeout_ms |-> 0], [trial_duration |-> 500]} }
ResponseTrials == { SymTrial(<<ShapeA, ShapeB>>) @@ rf : rf \in ResponseFields }

\* one trial-level environment: background level and calibration
TrialEnvs ==
    { [bg_gray |-> One \div 2],
      [bg_gray |-> -One, px_per_deg |-> 3],
      [bg_gray |-> 2 * One, px_per_deg |-> 3] }
SymTrialIn(env, its) ==
    env @@ [canvas_width |-> CanvasW, canvas_height |-> CanvasH, gamma |-> 1, items |-> its]

\* masked and rotated items at several positions
MaskShapes ==
    { [kind |-> "rect", width_px |-> 6, height_px |-> 2, gray |-> (4 * One) \div 5],
      [kind |-> "texture", mode |-> "stripes", bar_w_px |-> 2, gray |-> One \div 2],
      [kind |-> "texture", mode |-> "stripes", bar_w_px |-> 1, box |-> "cover-window"],
      [kind |-> "texture", mode |-> "noise", seed |-> 7, box |-> "canvas", gray |-> One \div 2] }
MaskFields ==
    { Empty,
      [mask |-> "circular", win_radius_px |-> 2],
      [window |-> "circle", win_radius_px |-> 3],
      [win_radius_px |-> 2],
      [mask |-> "rect", win_rect_w_px |-> 4, win_rect_h_px |-> 2],
      [mask |-> "raisedcos", win_radius_px |-> 3],
      [mask |-> "gaussian", win_radius_px |-> 3],
      [mask |-> "gaussian"] }
PosFields == { Empty, [x_px |-> 3], [x_px |-> -2, y_px |-> 1] }
RotFields == { Empty, [rotation_deg |-> 90], [rotation_deg |-> 180], [rotation_deg |-> 270] }
MaskTrials ==
    { SymTrial(<< sh @@ mf @@ pf @@ rf >>) :
        sh \in MaskShapes, mf \in MaskFields, pf \in PosFields, rf \in RotFields }

\* geometry given in pixels (also 0), in degrees, in both units, or not at all
ShapePairs ==
    [ circle    |-> {<<"radius_px", "radius_deg">>},
      annulus   |-> {<<"inner_px", "inner_deg">>, <<"outer_px", "outer_deg">>},
      rect      |-> {<<"width_px", "width_deg">>, <<"height_px", "height_deg">>},
      rectframe |-> {<<"width_px", "width_deg">>, <<"height_px", "height_deg">>},
      stripe    |-> {<<"stripe_len_px", "stripe_len_deg">>, <<"stripe_w_px", "stripe_w_deg">>},
      cross     |-> {<<"arm_len_px", "arm_len_deg">>, <<"arm_w_px", "arm_w_deg">>},
      texture   |-> {<<"bar_w_px", "bar_w_deg">>, <<"box_w_px", "box_w_deg">>,
                     <<"box_h_px", "box_h_deg">>},
      blob      |-> {} ]
CommonPairs ==
    { <<"x_px", "x_deg">>, <<"y_px", "y_deg">>,
      <<"win_radius_px", "win_radius_deg">>, <<"win_sigma_px", "win_sigma_deg">>,
      <<"win_rect_w_px", "win_rect_w_deg">>, <<"win_rect_h_px", "win_rect_h_deg">> }
UnitModes == {"none", "px0", "px", "deg", "both"}
PxValue  == 4
DegValue == 1
UnitFields(pairs, mode) ==
    LET pxs  == [n \in {q[1] : q \in pairs} |-> IF mode = "px0" THEN 0 ELSE PxValue]
        degs == [n \in {q[2] : q \in pairs} |-> DegValue]
    IN  IF mode = "none" THEN Empty
        ELSE IF mode \in {"px0", "px"} THEN pxs
        ELSE IF mode = "deg" THEN degs
        ELSE pxs @@ degs
\* fractions out of range on both sides, in range, and absent
FracFields ==
    { Empty,
      [gray |-> -(One \div 2), alpha |-> 2 * One, contrast |-> -One, duty |-> 3 * One],
      [gray |-> (3 * One) \div 10, alpha |-> One \div 2, contrast |-> One \div 4, duty |-> One \div 4],
      [gray |-> 2 * One, alpha |-> -One, contrast |-> 2 * One, duty |-> -One] }
KindFields ==
    { [kind |-> kd] : kd \in {"circle", "annulus", "rect", "rectframe", "stripe", "cross", "blob"} }
    \cup { [kind |-> "texture", mode |-> md] @@ bx :
             md \in {"stripes", "noise"},
             bx \in {Empty, [box |-> "canvas"], [box |-> "cover-window"]} }
NormTrials ==
    { SymTrialIn(env, << kf @@ UnitFields(ShapePairs[kf.kind] \cup CommonPairs, um) @@ ff >>) :
        env \in TrialEnvs, kf \in KindFields, um \in UnitModes, ff \in FracFields }

\* soft windows over items whose fractions are out of range
SoftTrials ==
    { SymTrialIn(env, << sh @@ ff @@ [mask |-> mk] @@ rd @@ sg >>) :
        env \in TrialEnvs,
        sh \in { [kind |-> "rect", width_px |-> 8, height_px |-> 6],
                 [kind |-> "texture", mode |-> "stripes", bar_w_px |-> 2] },
        ff \in FracFields,
        mk \in {"gaussian", "raisedcos"},
        rd \in {Empty, [win_radius_px |-> 2], [win_radius_px |-> 4]},
        sg \in {Empty, [win_sigma_px |-> 2]} }

\* items whose kind is missing, unknown, or written with capitals
OddKinds == {Empty, [kind |-> "blob"], [kind |-> "Circle"], [kind |-> "triangle"], [kind |-> ""]}
KindTrials ==
    { SymTrialIn(env, << kd @@ geo >>) :
        env \in TrialEnvs, kd \in OddKinds,
        geo \in {Empty, [radius_px |-> 3, fill |-> FALSE, x_px |-> 2], [radius_deg |-> 1, z |-> 1]} }

\* trial-level kind / size with and without an item list
LegacyKinds ==
    { Empty, [kind |-> "circle"], [kind |-> "annulus"], [kind |-> "rectframe"], [kind |-> "stripe"],
      [kind |-> "rect"], [kind |-> "cross"], [kind |-> "RECT"], [kind |-> "blob"] }
LegacySizes == { Empty, [size_px |-> 8], [size_deg |-> 2], [size_px |-> 8, size_deg |-> 2] }
LegacyTrials ==
    { env @@ [canvas_width |-> CanvasW, canvas_height |-> CanvasH, gamma |-> 1] @@ kd @@ sz @@ li :
        env \in TrialEnvs, kd \in LegacyKinds, sz \in LegacySizes,
        li \in { Empty, [items |-> <<>>], [items |-> << ShapeA >>] } }

\* two noise textures in one trial, the second drawn first
NoiseSeeds == {0, 1, 7}
NoiseItem(sd) == [kind |-> "texture", mode |-> "noise", seed |-> sd, gray |-> One \div 2]
NoiseTrials ==
    { SymTrial(<< NoiseItem(s1) @@ [z |-> 1, alpha |-> One \div 2],
                  NoiseItem(s2) @@ [x_px |-> 2, rotation_deg |-> 90] >>) :
        s1 \in NoiseSeeds, s2 \in NoiseSeeds }

\* a large square-wave grating seen through the canvas
GratingItem ==
    [kind |-> "texture", mode |-> "stripes", box |-> "cover-window", box_w_px |-> 100,
     box_h_px |-> 100, bar_w_px |-> 10, duty |-> One \div 2, contrast |-> (4 * One) \div 10,
     gray |-> One \div 2]
GratingTrials ==
    { SymTrial(<< GratingItem @@ extra >>) :
        extra \in {Empty, [orientation_deg |-> 0], [orientation_deg |-> 90], [phase_deg |-> 180]} }

SymbolTrials ==
    LayerTrials \cup MaskTrials \cup NormTrials \cup SoftTrials \cup KindTrials \cup LegacyTrials
        \cup NoiseTrials \cup GratingTrials \cup ResponseTrials

InitSymbol ==
    /\ plugin = "symbol"
    /\ pc = "start"
    /\ trial \in SymbolTrials
    /\ items = <<>>
    /\ k = 0
    /\ canvas = [P \in Pixels(CanvasW, CanvasH) |-> 0]
    /\ patches = <<>>
    /\ floatBuf = <<>>
    /\ Idle
    /\ ctx \in {"2d", "null"}

SpecSymbol == InitSymbol /\ [][NextSymbol]_vars

(***************************************************************************)
(* Layering (symbol plugin)                                                *)
(***************************************************************************)
\* the normalized form of the i-th item of the input list (input order)
NormIn(t, i) == normalizeItem(t.items[i], t, 0)
InputIdx(t)  == IF Has(t, "items") THEN 1..Len(t.items) ELSE {}
\* the trial carries a non-empty item list (normalizeItems reads it, not the legacy fields)
ListGiven    == Has(trial, "items") /\ Len(trial.items) > 0

Opaque(it)      == it.alpha = One /\ it.blend = "source-over"
CoversAt(t, i, P)  == sourceAt(NormIn(t, i), t.canvas_width, t.canvas_height, P)[2] = 255
TouchesAt(t, i, P) == sourceAt(NormIn(t, i), t.canvas_width, t.canvas_height, P)[2] > 0
ValueAt(t, i, P)   == sourceAt(NormIn(t, i), t.canvas_width, t.canvas_height, P)[1]

\* item i lies above item j: higher z, or equal z and later in the input
Above(t, i, j) ==
    \/ NormIn(t, i).z > NormIn(t, j).z
    \/ NormIn(t, i).z = NormIn(t, j).z /\ i > j

\* two opaque source-over items i (above) and j overlap at P, nothing else above i
OverlapAt(t, i, j, P) ==
    /\ i # j
    /\ Opaque(NormIn(t, i)) /\ Opaque(NormIn(t, j))
    /\ CoversAt(t, i, P) /\ CoversAt(t, j, P)
    /\ Above(t, i, j)
    /\ \A m \in InputIdx(t) \ {i} : TouchesAt(t, m, P) => Above(t, i, m)

\* the whole rendering pass of trial() as a function of the trial object
RECURSIVE drawAll(_, _, _, _)
drawAll(cv, its, n, t) ==
    IF n = 0 THEN cv
    ELSE drawItem(drawAll(cv, its, n - 1, t), its[n], t.canvas_width, t.canvas_height)
render(t) ==
    LET its == sortByZ(normalizeItems(t, [i \in 1..Len(t.items) |-> 0]))
    IN  drawAll(fillBackground(t.bg_gray, t.canvas_width, t.canvas_height), its, Len(its), t)

\* the trial with the z values of items i and j exchanged
SwapZ(t, i, j) ==
    [t EXCEPT !.items = [t.items EXCEPT ![i] = [z |-> NormIn(t, j).z] @@ t.items[i],
                                        ![j] = [z |-> NormIn(t, i).z] @@ t.items[j]]]

\* C1: where two opaque "source-over" items overlap, the final pixel is that of
\* the item with the higher z (the later input item on a tie); exchanging the
\* two z values makes the other item win.
C1_ZOrder ==
    (plugin = "symbol" /\ pc = "rendered") =>
        \A P \in Pixels(CanvasW, CanvasH) : \A i, j \in InputIdx(trial) :
            OverlapAt(trial, i, j, P) =>
                /\ canvas[P] = ValueAt(trial, i, P)
                /\ (NormIn(trial, i).z # NormIn(trial, j).z /\ OverlapAt(SwapZ(trial, i, j), j, i, P))
                      => render(SwapZ(trial, i, j))[P] = ValueAt(trial, j, P)

\* reached: a rendered pixel where the earlier input item has the higher z and wins
C1_Witness ==
    /\ plugin = "symbol" /\ pc = "rendered"
    /\ \E P \in Pixels(CanvasW, CanvasH) : \E i, j \in InputIdx(trial) :
          /\ i < j /\ OverlapAt(trial, i, j, P)
          /\ NormIn(trial, i).z > NormIn(trial, j).z
          /\ ValueAt(trial, i, P) # ValueAt(trial, j, P)
          /\ canvas[P] = ValueAt(trial, i, P)

(***************************************************************************)
(* Masks, rotation and placement (symbol plugin)                           *)
(***************************************************************************)
Masked(it)  == it.window # "" /\ it.window # "none"
\* the items drawImage has already put on the visible canvas
Drawn       == { items[n] : n \in 1..k }
SymRunning  == plugin = "symbol" /\ pc \in {"draw", "rendered"}

\* C2: for every masked item, at any position and rotation, the centre of the
\* window mask lands on the visible canvas where the centre of the masked
\* content lands.
C2_MaskCentred ==
    SymRunning =>
        \A it \in Drawn :
            Masked(it) =>
                ApplyM(maskToOutput(it, CanvasW, CanvasH), 0, 0)
                    = ApplyM(contentToOutput(it, CanvasW, CanvasH), 0, 0)

\* C3: content drawn through the offscreen buffer is placed and rotated on the
\* visible canvas exactly as the direct path places it: translated to the item
\* position and rotated by rotation_deg.
C3_NetRotation ==
    SymRunning =>
        \A it \in Drawn :
            needsBuffer(it) =>
                contentToOutput(it, CanvasW, CanvasH) = itemTransform(it, CanvasW, CanvasH)

\* C10: a "cover-window" texture with a circular window of radius R has a box
\* of side ceil(2 R sqrt 2) + 2, and every buffer pixel the mask keeps carries
\* texture content.
C10_CoverWindow ==
    SymRunning =>
        \A it \in Drawn :
            ( /\ it.kind = "texture" /\ Get(it, "box", "") = "cover-window"
              /\ it.window = "circular" /\ Truthy(it, "win_radius_px") ) =>
                /\ it.box_w_px = CeilSqrt(8 * it.win_radius_px * it.win_radius_px) + 2
                /\ it.box_h_px = it.box_w_px
                /\ \A B \in Pixels(CanvasW, CanvasH) :
                      maskAlpha(it, CanvasW, CanvasH, B) > 0
                          => bufferContent(it, CanvasW, CanvasH, B)[2] > 0

(***************************************************************************)
(* Normalization (symbol plugin)                                           *)
(***************************************************************************)
InUnit(x) == 0 <= x /\ x <= One
\* states in which `items` still has the order of the input list
SymNormalized == plugin = "symbol" /\ pc = "sort"

OutOfUnit(o, f) == Has(o, f) /\ ~InUnit(o[f])
GeometryDefault ==
    [ radius_px |-> 40, inner_px |-> 0, outer_px |-> 60, width_px |-> 120, height_px |-> 120,
      stripe_len_px |-> 300, stripe_w_px |-> 12, arm_len_px |-> 40, arm_w_px |-> 6,
      x_px |-> 0, y_px |-> 0 ]
GeometryPairs(kind) ==
    (IF kind \in {"circle", "annulus", "rect", "rectframe", "stripe", "cross"}
     THEN ShapePairs[kind] ELSE {})
    \cup {<<"x_px", "x_deg">>, <<"y_px", "y_deg">>}
WindowPairs ==
    { <<"win_radius_px", "win_radius_deg">>, <<"win_sigma_px", "win_sigma_deg">>,
      <<"win_rect_w_px", "win_rect_w_deg">>, <<"win_rect_h_px", "win_rect_h_deg">> }

\* the value of field q[1] in the result follows the precedence pixel > degree > default
Precedence(out, raw, q, ppd) ==
    /\ Has(raw, q[1]) => (Has(out, q[1]) /\ out[q[1]] = raw[q[1]])
    /\ (~Has(raw, q[1]) /\ Has(raw, q[2])) => (Has(out, q[1]) /\ out[q[1]] = raw[q[2]] * ppd)
    /\ (~Has(raw, q[1]) /\ ~Has(raw, q[2])) =>
          IF q[1] \in DOMAIN GeometryDefault
          THEN Has(out, q[1]) /\ out[q[1]] = GeometryDefault[q[1]]
          ELSE ~Has(out, q[1])

\* C6: every position, primitive-geometry and window-size field resolves to the
\* explicit pixel field when given (also when 0), else to the degree field
\* times px_per_deg, else to the built-in default (window sizes: none).
C6_UnitPrecedence ==
    (SymNormalized /\ ListGiven) =>
        \A n \in 1..Len(items) :
            \A q \in GeometryPairs(Get(trial.items[n], "kind", "")) \cup WindowPairs :
                Precedence(items[n], trial.items[n], q, Get(trial, "px_per_deg", 60))

\* reached: pixel 0 kept, a degree value converted, both given, and defaults used
C6_Witness ==
    /\ SymNormalized /\ ListGiven /\ Len(items) = 1
    /\ items[1].kind = "annulus"
    /\ Has(trial.items[1], "outer_px") /\ Has(trial.items[1], "outer_deg")
    /\ Has(trial, "px_per_deg")
    /\ items[1].outer_px = PxValue /\ items[1].outer_px # DegValue * trial.px_per_deg
    /\ items[1].win_sigma_px = PxValue

\* C8: a texture item with explicit box_w_px / box_h_px and no `box` shorthand
\* gets exactly that box; the canvas size is used only for box "canvas" or when
\* no box size is given.
C8_ExplicitBox ==
    (SymNormalized /\ ListGiven) =>
        \A n \in 1..Len(items) :
            LET raw == trial.items[n] IN
            items[n].kind = "texture" =>
                /\ (Has(raw, "box_w_px") /\ Has(raw, "box_h_px") /\ ~Has(raw, "box")) =>
                      (items[n].box_w_px = raw.box_w_px /\ items[n].box_h_px = raw.box_h_px)
                /\ (items[n].box_w_px = CanvasW /\ items[n].box_h_px = CanvasH) =>
                      \/ Get(raw, "box", "") = "canvas"
                      \/ ~(Has(raw, "box_w_px") \/ Has(raw, "box_w_deg"))
                      \/ ~(Has(raw, "box_h_px") \/ Has(raw, "box_h_deg"))

(***************************************************************************)
(* gabor-array plugin (plugins/gabor-array).  Levels, contrasts, alphas,   *)
(* envelope and carrier values are in units of 1/One; spatial frequencies  *)
(* are in units of 1/One cycles.  Orientations and carrier angles are      *)
(* integer degrees; orientations are multiples of 90.                      *)
(***************************************************************************)
\* the JavaScript remainder a % b for b > 0: the sign follows the dividend
JsRem(a, b) == IF a >= 0 THEN a % b ELSE -((-a) % b)

\* const wrap180 = (d) => ((d % 180) + 180) % 180
wrap180(d) == JsRem(JsRem(d, 180) + 180, 180)

\* product of two values in units of 1/One, rounded to the nearest unit
MulFP(a, b) == RoundDiv(a * b, One)

\* One * Math.cos(deg2rad(a)) with Bhaskara's rational cosine; exact at the
\* multiples of 60 and 90 degrees
CosDeg(a) ==
    LET x == a % 360
        y == IF x > 180 THEN 360 - x ELSE x
        B(u) == ((32400 - 4 * u * u) * One) \div (32400 + u * u)
    IN  IF y <= 90 THEN B(y) ELSE -B(180 - y)

\* a truthy px_per_deg
HasPpd(t) == Truthy(t, "px_per_deg")

\* the body of the loop of preparePatches
preparePatch(p, t) ==
    LET sigma_px == IF HasPpd(t) /\ Has(p, "sigma_deg") THEN p.sigma_deg * t.px_per_deg
                    ELSE Get(p, "sigma_px", 40)
        sf_cpp   == IF HasPpd(t) /\ Has(p, "sf_cpd") THEN RoundDiv(p.sf_cpd, t.px_per_deg)
                    ELSE Get(p, "sf_cpp", (2 * One) \div 100)
        size_px  == Get(p, "size_px", Max2(8, Get(p, "sigma_px", sigma_px) * 6))
    IN  [ x_px            |-> Get(p, "x_px", 0),
          y_px            |-> Get(p, "y_px", 0),
          sigma_px        |-> sigma_px,
          orientation_deg |-> wrap180(Get(p, "orientation_deg", 0)),
          contrast        |-> clamp01(Get(p, "contrast", One \div 2)),
          sf_cpp          |-> sf_cpp,
          phase_deg       |-> Get(p, "phase_deg", 0),
          size_px         |-> size_px,
          alpha           |-> IF Has(p, "alpha") THEN clamp01(p.alpha) ELSE One ]
        @@ OptCopy("label", p, "label")

preparePatches(t) ==
    LET src == Get(t, "patches", <<>>)
    IN  [i \in 1..Len(src) |-> preparePatch(src[i], t)]

\* bg_gray * p.contrast * cosTerm * env * alpha at offset (dx, dy) from the centre
contribAt(p, bg_gray, dx, dy) ==
    LET xr      == dx * Cos90(p.orientation_deg) + dy * Sin90(p.orientation_deg)
        r2      == dx * dx + dy * dy
        env     == ExpNeg(r2, 2 * p.sigma_px * p.sigma_px)
        cosTerm == CosDeg(RoundDiv(360 * p.sf_cpp * xr, One) + p.phase_deg)
    IN  MulFP(MulFP(MulFP(MulFP(bg_gray, p.contrast), cosTerm), env), p.alpha)

\* one iteration of  for (const p of patches)  in drawPatches
drawPatch(buf, p, bg_gray, blend_mode, W, H) ==
    LET half == p.size_px \div 2
        cx   == RoundDiv(W + 2 * p.x_px, 2)
        cy   == RoundDiv(H + 2 * p.y_px, 2)
    IN  [P \in Pixels(W, H) |->
            LET dx == P[1] - cx
                dy == P[2] - cy
            IN  IF Abs(dx) <= half /\ Abs(dy) <= half
                THEN IF blend_mode = "max"
                     THEN Max2(buf[P], clamp01(bg_gray + contribAt(p, bg_gray, dx, dy)))
                     ELSE buf[P] + contribAt(p, bg_gray, dx, dy)
                ELSE buf[P]]

\* new Float32Array(W * H).fill(clamp01(bg_gray))
newFloatBuf(bg_gray, W, H) == [P \in Pixels(W, H) |-> clamp01(bg_gray)]

\* "Write to canvas with gamma correction" (gamma = 1)
writeCanvas(buf, W, H) == [P \in Pixels(W, H) |-> ToByte(clamp01(buf[P]))]

RECURSIVE drawPatchesFrom(_, _, _, _, _, _, _)
drawPatchesFrom(buf, ps, n, bg_gray, blend_mode, W, H) ==
    IF n > Len(ps) THEN buf
    ELSE drawPatchesFrom(drawPatch(buf, ps[n], bg_gray, blend_mode, W, H),
                         ps, n + 1, bg_gray, blend_mode, W, H)

\* the image drawPatches puts on the canvas
drawPatches(ps, bg_gray, blend_mode, W, H) ==
    writeCanvas(drawPatchesFrom(newFloatBuf(bg_gray, W, H), ps, 1, bg_gray, blend_mode, W, H), W, H)

(***************************************************************************)
(* gabor-array plugin: trial().  pc follows the statements of the method:  *)
(*   start -> (fillBackground) prepare -> (preparePatches) patch ...       *)
(*         -> write -> rendered                                            *)
(***************************************************************************)
GabBegin ==
    /\ plugin = "gabor-array" /\ pc = "start" /\ ctx = "2d"
    /\ canvas' = fillBackground(trial.bg_gray, trial.canvas_width, trial.canvas_height)
    /\ pc' = "prepare"
    /\ UNCHANGED <<plugin, trial, items, k, patches, floatBuf>>
    /\ display_element' = "canvas"
    /\ UNCHANGED <<respVars, hostVars, presses>>

GabNoContext ==
    /\ plugin = "gabor-array"
    /\ noContext

GabPrepare ==
    /\ plugin = "gabor-array" /\ pc = "prepare"
    /\ patches' = preparePatches(trial)
    /\ floatBuf' = newFloatBuf(trial.bg_gray, trial.canvas_width, trial.canvas_height)
    /\ k' = 0
    /\ pc' = "patch"
    /\ UNCHANGED <<plugin, trial, items, canvas>>
    /\ UNCHANGED <<display_element, respVars, hostVars, presses>>

GabDrawPatch ==
    /\ plugin = "gabor-array" /\ pc = "patch" /\ k < Len(patches)
    /\ floatBuf' = drawPatch(floatBuf, patches[k + 1], trial.bg_gray, trial.blend_mode,
                             trial.canvas_width, trial.canvas_height)
    /\ k' = k + 1
    /\ UNCHANGED <<plugin, pc, trial, items, canvas, patches>>
    /\ UNCHANGED <<display_element, respVars, hostVars, presses>>

GabWrite ==
    /\ plugin = "gabor-array" /\ pc = "patch" /\ k = Len(patches)
    /\ canvas' = writeCanvas(floatBuf, trial.canvas_width, trial.canvas_height)
    /\ pc' = "rendered"
    /\ UNCHANGED <<plugin, trial, items, k, patches, floatBuf>>
    /\ UNCHANGED <<display_element, respVars, hostVars, presses>>

GabInstall ==
    /\ plugin = "gabor-array" /\ pc = "rendered"
    /\ installResponses

\* indexOfExtreme: the loop over the patches, i being the (0-based) index
\* examined next and idx the best one so far
RECURSIVE extremeFrom(_, _, _, _)
extremeFrom(ps, which, i, idx) ==
    IF i >= Len(ps) THEN idx
    ELSE IF which = "left" /\ ps[i + 1].x_px < ps[idx + 1].x_px THEN extremeFrom(ps, which, i + 1, i)
    ELSE IF which = "right" /\ ps[i + 1].x_px > ps[idx + 1].x_px THEN extremeFrom(ps, which, i + 1, i)
    ELSE extremeFrom(ps, which, i + 1, idx)
indexOfExtreme(ps, which) ==
    IF Len(ps) = 0 THEN Null ELSE <<extremeFrom(ps, which, 1, 0)>>

\* mapKeyToChoice (the values of keymap_to_patch_index are finite numbers here)
mapKeyToChoice(key, t, ps) ==
    IF Has(t, "keymap_to_patch_index") /\ key \in DOMAIN t.keymap_to_patch_index
    THEN [chosen_patch_index |-> <<t.keymap_to_patch_index[key]>>, resp_side |-> "patch"]
    ELSE IF key = "ArrowLeft"
    THEN [chosen_patch_index |-> indexOfExtreme(ps, "left"), resp_side |-> "left"]
    ELSE IF key = "ArrowRight"
    THEN [chosen_patch_index |-> indexOfExtreme(ps, "right"), resp_side |-> "right"]
    ELSE [chosen_patch_index |-> Null, resp_side |-> "null"]

\* nearestPatchSide: distances are compared doubled, so that the canvas
\* centre W/2 stays an integer
RECURSIVE nearestFrom(_, _, _, _, _)
nearestFrom(ps, px, py, i, best) ==
    IF i >= Len(ps) THEN best[1]
    ELSE LET dx == 2 * px - (trial.canvas_width + 2 * ps[i + 1].x_px)
             dy == 2 * py - (trial.canvas_height + 2 * ps[i + 1].y_px)
             d2 == dx * dx + dy * dy
         IN  IF best[2] < 0 \/ d2 < best[2]
             THEN nearestFrom(ps, px, py, i + 1, <<i, d2>>)
             ELSE nearestFrom(ps, px, py, i + 1, best)
nearestPatchSide(px, py, ps) ==
    IF Len(ps) = 0 THEN [chosen_patch_index |-> Null, resp_side |-> "null"]
    ELSE LET idx == nearestFrom(ps, px, py, 0, <<0, -1>>)
             x   == ps[idx + 1].x_px
         IN  [chosen_patch_index |-> <<idx>>,
              resp_side |-> IF x < -1 THEN "left" ELSE IF x > 1 THEN "right" ELSE "center"]

\* the data object built by end()
DataOut(key, rt, mapped) ==
    [resp_key |-> key, rt |-> rt, resp_side |-> mapped.resp_side,
     chosen_patch_index |-> mapped.chosen_patch_index, n_patches |-> Len(patches)]

\* canvas positions the participant may press the mouse at
Clicks == { <<0, 0>>, <<6, 6>>, <<11, 3>> }

GabKeyboard ==
    /\ plugin = "gabor-array"
    /\ \E key \in Keys :
          keyboardResponse(key, DataOut(key, "number", mapKeyToChoice(key, trial, patches)))
GabMouseDown ==
    /\ plugin = "gabor-array"
    /\ \E at \in Clicks :
          mousedown(DataOut("null", "number", nearestPatchSide(at[1], at[2], patches)))
GabTimeout ==
    /\ plugin = "gabor-array"
    /\ timeout(DataOut("null", "null", [chosen_patch_index |-> Null, resp_side |-> "null"]))

NextGabor ==
    \/ GabBegin \/ GabNoContext \/ GabPrepare \/ GabDrawPatch \/ GabWrite
    \/ GabInstall \/ GabKeyboard \/ GabMouseDown \/ GabTimeout

(***************************************************************************)
(* Trial parameter objects given to the gabor-array plugin                 *)
(***************************************************************************)
GaborEnvs ==
    { [bg_gray |-> bg, blend_mode |-> bm] @@ pd :
        bg \in {One \div 2, -(One \div 2), 2 * One},
        bm \in {"add", "max"},
        pd \in {Empty, [px_per_deg |-> 3]} }
GaborUnits ==
    { Empty,
      [sigma_px |-> 2, sf_cpp |-> One \div 4],
      [sigma_deg |-> 1, sf_cpd |-> (3 * One) \div 2],
      [sigma_px |-> 2, sigma_deg |-> 1, sf_cpp |-> One \div 4, sf_cpd |-> (3 * One) \div 2] }
GaborLooks ==
    { Empty,
      [phase_deg |-> 180, contrast |-> One],
      [orientation_deg |-> 90, x_px |-> 2, alpha |-> 2 * One],
      [orientation_deg |-> -90, y_px |-> -3, contrast |-> 2 * One, alpha |-> One \div 2] }
GaborPatchesIn == { u @@ l : u \in GaborUnits, l \in GaborLooks }
SecondPatch == [sigma_px |-> 3, x_px |-> -2, y_px |-> 1, phase_deg |-> 180, sf_cpp |-> One \div 4]
\* at its centre this patch alone raises a background of 0.5 to 0.6
FaintPatch == [contrast |-> One \div 5]
\* patch lists with ties in x_px, and key maps pointing inside and outside them
KeymapPatches ==
    { <<>>, <<[x_px |-> 2]>>, <<[x_px |-> 3], [x_px |-> -3], [x_px |-> -3, y_px |-> 2]>>,
      <<[x_px |-> -1], [x_px |-> 4], [x_px |-> 4, y_px |-> -2]>> }
KeymapFields ==
    { Empty, [keymap_to_patch_index |-> [f |-> 0, j |-> 1]],
      [keymap_to_patch_index |-> [f |-> 5, ArrowLeft |-> -1]] }
GaborTrials ==
    { env @@ [canvas_width |-> CanvasW, canvas_height |-> CanvasH, gamma |-> 1, patches |-> ps] :
        env \in GaborEnvs,
        ps \in { <<>> } \cup { <<p>> : p \in GaborPatchesIn }
                        \cup { <<p, SecondPatch>> : p \in GaborUnits }
                        \cup { <<FaintPatch, FaintPatch>> } }
    \cup { [bg_gray |-> One \div 2, blend_mode |-> "add", canvas_width |-> CanvasW,
            canvas_height |-> CanvasH, gamma |-> 1, patches |-> <<FaintPatch, SecondPatch>>] @@ rf :
             rf \in ResponseFields }
    \cup { [bg_gray |-> One \div 2, blend_mode |-> "add", canvas_width |-> CanvasW,
            canvas_height |-> CanvasH, gamma |-> 1, patches |-> ps,
            response_keys |-> <<"f", "j", "ArrowLeft", "ArrowRight">>] @@ km :
             ps \in KeymapPatches, km \in KeymapFields }

InitGabor ==
    /\ plugin = "gabor-array"
    /\ pc = "start"
    /\ trial \in GaborTrials
    /\ items = <<>>
    /\ k = 0
    /\ canvas = [P \in Pixels(CanvasW, CanvasH) |-> 0]
    /\ patches = <<>>
    /\ floatBuf = <<>>
    /\ Idle
    /\ ctx \in {"2d", "null"}

SpecGabor == InitGabor /\ [][NextGabor]_vars

(***************************************************************************)
(* Background level and units (gabor-array plugin)                         *)
(***************************************************************************)
GabRendered == plugin = "gabor-array" /\ pc = "rendered"
GabPrepared == plugin = "gabor-array" /\ pc \in {"patch", "rendered"}

\* C5: an out-of-range bg_gray never enters a pixel computation: the image
\* drawPatches produces is the image computed from the clamped background
\* level, and every output pixel is in 0..255.
C5_BackgroundClamped ==
    GabRendered =>
        /\ canvas = drawPatches(patches, clamp01(trial.bg_gray), trial.blend_mode,
                                trial.canvas_width, trial.canvas_height)
        /\ \A P \in Pixels(CanvasW, CanvasH) : canvas[P] \in 0..255

\* C7: a patch that gives a pixel-unit value gets exactly that value as
\* sigma_px / sf_cpp, also when the degree-unit value and px_per_deg are given;
\* the degree value is used when the pixel value is absent, the default otherwise.
C7_PixelUnitsWin ==
    GabPrepared =>
        \A n \in 1..Len(patches) :
            LET p == trial.patches[n] IN
            /\ patches[n].sigma_px =
                  IF Has(p, "sigma_px") THEN p.sigma_px
                  ELSE IF Has(p, "sigma_deg") /\ HasPpd(trial) THEN p.sigma_deg * trial.px_per_deg
                  ELSE 40
            /\ patches[n].sf_cpp =
                  IF Has(p, "sf_cpp") THEN p.sf_cpp
                  ELSE IF Has(p, "sf_cpd") /\ HasPpd(trial) THEN RoundDiv(p.sf_cpd, trial.px_per_deg)
                  ELSE (2 * One) \div 100

(***************************************************************************)
(* Other builds of the symbol plugin (unnamed/part_003):                   *)
(*   "symbol-aliases": version 0.6.0 with the top-level aliases item/color *)
(*   "symbol-0.5.1":   version 0.5.1                                       *)
(* px_per_deg ?? null is kept as 0: both are falsy in  ppd && ...          *)
(***************************************************************************)
\* raw.<px> ?? (ppd && raw.<deg> != null ? raw.<deg> * ppd : dflt)
PxDegIf(raw, px, deg, ppd, dflt) ==
    IF Has(raw, px) THEN raw[px]
    ELSE IF ppd # 0 /\ Has(raw, deg) THEN raw[deg] * ppd
    ELSE dflt

PxDegIfOpt(name, raw, px, deg, ppd) ==
    IF Has(raw, px) THEN Fld(name, raw[px])
    ELSE IF ppd # 0 /\ Has(raw, deg) THEN Fld(name, raw[deg] * ppd)
    ELSE Empty

\* the legacy item of kind kk and size size_px (both builds)
legacyItem(kk, size_px) ==
    IF kk = "annulus" THEN [kind |-> "annulus", outer_px |-> size_px \div 2, inner_px |-> size_px \div 4]
    ELSE IF kk = "rectframe" THEN
        [kind |-> "rectframe", width_px |-> size_px, height_px |-> size_px, stroke_px |-> 2]
    ELSE IF kk = "stripe" THEN
        [kind |-> "stripe", stripe_len_px |-> (size_px * 3) \div 2, stripe_w_px |-> Max2(4, size_px \div 10)]
    ELSE IF kk = "rect" THEN [kind |-> "rect", width_px |-> size_px, height_px |-> size_px]
    ELSE IF kk = "cross" THEN
        [kind |-> "cross", arm_len_px |-> size_px \div 2, arm_w_px |-> Max2(4, (size_px * 8) \div 100)]
    ELSE IF kk = "triangle" THEN [kind |-> "triangle", side_px |-> size_px]
    ELSE [kind |-> "circle", radius_px |-> size_px \div 2]

legacyToItems_aliases(t) ==
    IF ~Has(t, "kind") \/ t.kind = "" THEN <<>>
    ELSE << legacyItem(toLowerCase(t.kind),
                       PxDegIf(t, "size_px", "size_deg", Get(t, "px_per_deg", 0), 80)) >>

legacyToItems_v051(t) ==
    IF ~Has(t, "kind") \/ t.kind = "" THEN <<>>
    ELSE << legacyItem(toLowerCase(t.kind),
                       PxDeg(t, "size_px", "size_deg", Get(t, "px_per_deg", 60), 80)) >>

\* the switch on String(base.kind || "").toLowerCase(), shared by both builds;
\* ppd = 0 stands for the missing calibration of the aliases build
normShape_part003(raw, base, ppd, CW, CH, rnd) ==
    LET kk == toLowerCase(base.kind)
        wantCanvas == Has(base, "box") /\ base.box = "canvas"
        wantCover  == Has(base, "box") /\ base.box = "cover-window" /\ Truthy(base, "win_radius_px")
        box == IF wantCanvas THEN [box_w_px |-> CW, box_h_px |-> CH]
               ELSE IF wantCover THEN
                   LET side == CeilSqrt(8 * base.win_radius_px * base.win_radius_px) + 2
                   IN  [box_w_px |-> side, box_h_px |-> side]
               ELSE [box_w_px |-> PxDegIf(raw, "box_w_px", "box_w_deg", ppd, CW),
                     box_h_px |-> PxDegIf(raw, "box_h_px", "box_h_deg", ppd, CH)]
    IN  IF kk = "circle" THEN
            base @@ [radius_px |-> PxDegIf(raw, "radius_px", "radius_deg", ppd, 40),
                     fill      |-> Get(raw, "fill", TRUE)]
        ELSE IF kk = "triangle" THEN
            base @@ [side_px |-> PxDegIf(raw, "side_px", "side_deg", ppd, 100),
                     fill    |-> Get(raw, "fill", TRUE)]
        ELSE IF kk = "annulus" THEN
            base @@ [inner_px |-> PxDegIf(raw, "inner_px", "inner_deg", ppd, 0),
                     outer_px |-> PxDegIf(raw, "outer_px", "outer_deg", ppd, 60)]
        ELSE IF kk \in {"rect", "rectframe"} THEN
            base @@ [width_px  |-> PxDegIf(raw, "width_px",  "width_deg",  ppd, 120),
                     height_px |-> PxDegIf(raw, "height_px", "height_deg", ppd, 120),
                     corner_radius_px |-> Max2(0, Get(raw, "corner_radius_px", 0))]
                 @@ (IF base.kind = "rect" THEN [fill |-> Get(raw, "fill", TRUE)] ELSE Empty)
        ELSE IF kk = "stripe" THEN
            base @@ [stripe_len_px |-> PxDegIf(raw, "stripe_len_px", "stripe_len_deg", ppd, 300),
                     stripe_w_px   |-> PxDegIf(raw, "stripe_w_px",   "stripe_w_deg",   ppd, 20)]
        ELSE IF kk = "cross" THEN
            base @@ [arm_len_px |-> PxDegIf(raw, "arm_len_px", "arm_len_deg", ppd, 40),
                     arm_w_px   |-> PxDegIf(raw, "arm_w_px",   "arm_w_deg",   ppd, 6)]
        ELSE IF kk = "texture" THEN
            IF Has(raw, "mode") /\ raw.mode = "noise" THEN
                base @@ box
                     @@ [mode     |-> "noise",
                         contrast |-> clamp01(Get(raw, "contrast", One \div 2)),
                         seed     |-> Get(raw, "seed", rnd)]
            ELSE
                base @@ box
                     @@ [mode            |-> "stripes",
                         orientation_deg |-> Get(raw, "orientation_deg", 0),
                         bar_w_px        |-> PxDegIf(raw, "bar_w_px", "bar_w_deg", ppd, 12),
                         duty            |-> clamp01(Get(raw, "duty", One \div 2)),
                         phase_deg       |-> Get(raw, "phase_deg", 0),
                         contrast        |-> clamp01(Get(raw, "contrast", (6 * One) \div 10))]
        ELSE defaultDisc(base)

\* the fields of `base` that both builds compute alike
normBase_part003(raw, t, ppd) ==
    [ kind         |-> Get(raw, "kind", ""),
      x_px         |-> PxDegIf(raw, "x_px", "x_deg", ppd, 0),
      y_px         |-> PxDegIf(raw, "y_px", "y_deg", ppd, 0),
      z            |-> Get(raw, "z", 0),
      blend        |-> Get(raw, "blend", "source-over"),
      gray         |-> clamp01(Get(raw, "gray", t.bg_gray)),
      alpha        |-> clamp01(Get(raw, "alpha", One)),
      rotation_deg |-> Get(raw, "rotation_deg", 0),
      stroke_px    |-> Get(raw, "stroke_px", 2) ]
    @@ OptCopy("label", raw, "label")
    @@ OptCopy("box", raw, "box")
    @@ PxDegIfOpt("win_radius_px", raw, "win_radius_px", "win_radius_deg", ppd)
    @@ PxDegIfOpt("win_sigma_px",  raw, "win_sigma_px",  "win_sigma_deg",  ppd)
    @@ PxDegIfOpt("win_rect_w_px", raw, "win_rect_w_px", "win_rect_w_deg", ppd)
    @@ PxDegIfOpt("win_rect_h_px", raw, "win_rect_h_px", "win_rect_h_deg", ppd)

\* version 0.6.0 with aliases: window is raw.mask ?? raw.window ?? "none", with
\* "circle" renamed; the window kind is not inferred from the window geometry
normalizeItem_aliases(raw, t, rnd) ==
    LET ppd   == Get(t, "px_per_deg", 0)
        w0    == Get(raw, "mask", Get(raw, "window", "none"))
        base  == normBase_part003(raw, t, ppd)
                 @@ [window |-> IF w0 = "circle" THEN "circular" ELSE w0]
                 @@ (IF Has(t, "color") THEN Fld("color", t.color) ELSE OptCopy("color", raw, "color"))
    IN  normShape_part003(raw, base, ppd, t.canvas_width, t.canvas_height, rnd)

\* trial.item is <<"string", kind>> or <<"object", item>>
normalizeItems_aliases(t, rnd) ==
    LET src == IF Has(t, "items") /\ Len(t.items) > 0 THEN t.items
               ELSE IF Has(t, "item")
                    THEN << IF t.item[1] = "string" THEN [kind |-> t.item[2]] ELSE t.item[2] >>
               ELSE legacyToItems_aliases(t)
    IN  [i \in 1..Len(src) |-> normalizeItem_aliases(src[i], t, rnd)]

\* version 0.5.1: window is raw.window ?? raw.mask ?? "none"; the window kind
\* is inferred from the raw win_* fields when neither is given
normalizeItem_v051(raw, t, rnd) ==
    LET ppd   == Get(t, "px_per_deg", 60)
        w0    == Get(raw, "window", Get(raw, "mask", "none"))
        w1    == IF w0 = "circle" THEN "circular" ELSE w0
        hasCircleWin == Has(raw, "win_radius_px") \/ Has(raw, "win_radius_deg")
        hasRectWin   == \/ Has(raw, "win_rect_w_px") \/ Has(raw, "win_rect_h_px")
                        \/ Has(raw, "win_rect_w_deg") \/ Has(raw, "win_rect_h_deg")
        w2    == IF ~Has(raw, "window") /\ ~Has(raw, "mask")
                 THEN IF hasCircleWin THEN "circular" ELSE IF hasRectWin THEN "rect" ELSE w1
                 ELSE w1
        base  == normBase_part003(raw, t, ppd) @@ [window |-> w2] @@ OptCopy("color", raw, "color")
    IN  normShape_part003(raw, base, ppd, t.canvas_width, t.canvas_height, rnd)

normalizeItems_v051(t, rnd) ==
    LET src == IF Has(t, "items") /\ Len(t.items) > 0 THEN t.items ELSE legacyToItems_v051(t)
    IN  [i \in 1..Len(src) |-> normalizeItem_v051(src[i], t, rnd)]

(***************************************************************************)
(* The start of trial() in the three builds: fillBackground, then          *)
(* normalizeItems.                                                         *)
(***************************************************************************)
Builds == {"symbol", "symbol-aliases", "symbol-0.5.1"}

BuildBegin ==
    /\ plugin \in Builds /\ pc = "start" /\ ctx = "2d"
    /\ canvas' = fillBackground(trial.bg_gray, trial.canvas_width, trial.canvas_height)
    /\ pc' = "normalize"
    /\ UNCHANGED <<plugin, trial, items, k, patches, floatBuf>>
    /\ display_element' = "canvas"
    /\ UNCHANGED <<respVars, hostVars, presses>>

AliasesNormalize ==
    /\ plugin = "symbol-aliases" /\ pc = "normalize"
    /\ \E rnd \in RandomDraws : items' = normalizeItems_aliases(trial, rnd)
    /\ pc' = "sort"
    /\ UNCHANGED <<plugin, trial, k, canvas, patches, floatBuf>>
    /\ UNCHANGED <<display_element, respVars, hostVars, presses>>

V051Normalize ==
    /\ plugin = "symbol-0.5.1" /\ pc = "normalize"
    /\ \E rnd \in RandomDraws : items' = normalizeItems_v051(trial, rnd)
    /\ pc' = "sort"
    /\ UNCHANGED <<plugin, trial, k, canvas, patches, floatBuf>>
    /\ UNCHANGED <<display_element, respVars, hostVars, presses>>

NextBuilds == BuildBegin \/ SymNormalize \/ AliasesNormalize \/ V051Normalize

\* items with every combination of window kind and window geometry
WindowKindFields == {Empty, [mask |-> "circle"], [window |-> "rect"], [mask |-> "none"]}
WindowGeomFields ==
    { Empty, [win_radius_px |-> 3], [win_radius_deg |-> 1], [win_rect_w_px |-> 4],
      [win_rect_h_deg |-> 1], [win_radius_px |-> 3, win_rect_w_px |-> 4, win_rect_h_px |-> 2] }
BuildShapes ==
    { [kind |-> "circle", radius_px |-> 3],
      [kind |-> "RECT", width_deg |-> 2],
      [kind |-> "Triangle", color |-> "green"],
      [kind |-> "texture", mode |-> "stripes", box |-> "cover-window"],
      [kind |-> "texture", mode |-> "noise"] }
BuildTrials ==
    { SymTrialIn(env, << sh @@ wk @@ wg >>) :
        env \in TrialEnvs, sh \in BuildShapes, wk \in WindowKindFields, wg \in WindowGeomFields }
    \cup { env @@ [canvas_width |-> CanvasW, canvas_height |-> CanvasH, gamma |-> 1] @@ al :
             env \in TrialEnvs,
             al \in { [item |-> <<"string", "triangle">>, color |-> "green"],
                      [item |-> <<"object", [kind |-> "circle", win_radius_px |-> 3]>>],
                      [kind |-> "Circle", size_px |-> 8],
                      [kind |-> "stripe", size_deg |-> 2],
                      Empty } }

InitBuilds ==
    /\ plugin \in Builds
    /\ pc = "start"
    /\ trial \in BuildTrials
    /\ items = <<>>
    /\ k = 0
    /\ canvas = [P \in Pixels(CanvasW, CanvasH) |-> 0]
    /\ patches = <<>>
    /\ floatBuf = <<>>
    /\ Idle
    /\ ctx = "2d"

SpecBuilds == InitBuilds /\ [][NextBuilds]_vars

\* the raw items normalizeItems of the running build reads
BuildSource ==
    IF Has(trial, "items") /\ Len(trial.items) > 0 THEN trial.items
    ELSE IF plugin = "symbol-aliases" /\ Has(trial, "item")
         THEN << IF trial.item[1] = "string" THEN [kind |-> trial.item[2]] ELSE trial.item[2] >>
    ELSE IF plugin = "symbol-aliases" THEN legacyToItems_aliases(trial)
    ELSE IF plugin = "symbol-0.5.1" THEN legacyToItems_v051(trial)
    ELSE legacyToItems(trial)

\* C9: in every build, an item that gives neither `mask` nor `window` gets the
\* window "circular" when it gives a window radius (px or deg), and "rect"
\* when it gives a window width or height and no radius.
C9_WindowInferred ==
    (plugin \in Builds /\ pc = "sort") =>
        \A n \in 1..Len(items) :
            LET raw == BuildSource[n]
                radius == Has(raw, "win_radius_px") \/ Has(raw, "win_radius_deg")
                rect   == \/ Has(raw, "win_rect_w_px") \/ Has(raw, "win_rect_h_px")
                          \/ Has(raw, "win_rect_w_deg") \/ Has(raw, "win_rect_h_deg")
            IN  (~Has(raw, "mask") /\ ~Has(raw, "window")) =>
                    /\ radius => items[n].window = "circular"
                    /\ (rect /\ ~radius) => items[n].window = "rect"

(***************************************************************************)
(* Item kinds (symbol plugin)                                              *)
(***************************************************************************)
\* the kinds the switch of normalizeItems has a case for
SwitchKinds == {"circle", "annulus", "rect", "rectframe", "stripe", "cross", "texture"}

drawPrimitiveKinds ==
    IF plugin = "symbol" THEN {"circle", "annulus", "rect", "rectframe", "stripe", "cross"}
    ELSE {"circle", "triangle", "annulus", "rect", "rectframe", "stripe", "cross"}

\* C12: every normalized item that is not a texture has a kind for which
\* drawPrimitiveInto draws a shape, whatever the letter case of the given kind.
C12_KindDrawable ==
    (plugin \in Builds /\ pc = "sort") =>
        \A n \in 1..Len(items) :
            items[n].kind # "texture" => items[n].kind \in drawPrimitiveKinds

(***************************************************************************)
(* Legacy single-shape trials (symbol plugin)                              *)
(***************************************************************************)
NoItemList(t) == ~Has(t, "items") \/ Len(t.items) = 0
LegacySize(t) ==
    IF Has(t, "size_px") THEN t.size_px
    ELSE IF Has(t, "size_deg") THEN t.size_deg * Get(t, "px_per_deg", 60)
    ELSE 80
\* the geometry the legacy path derives from kind and size
LegacyGeometry(kind, size) ==
    IF kind \in {"annulus"} THEN [kind |-> "annulus", outer_px |-> size \div 2, inner_px |-> size \div 4]
    ELSE IF kind = "rectframe" THEN [kind |-> "rectframe", width_px |-> size, height_px |-> size, stroke_px |-> 2]
    ELSE IF kind \in {"rect", "RECT"} THEN [kind |-> "rect", width_px |-> size, height_px |-> size]
    ELSE IF kind = "stripe" THEN
        [kind |-> "stripe", stripe_len_px |-> (3 * size) \div 2, stripe_w_px |-> Max2(4, size \div 10)]
    ELSE IF kind = "cross" THEN
        [kind |-> "cross", arm_len_px |-> size \div 2, arm_w_px |-> Max2(4, (8 * size) \div 100)]
    ELSE [kind |-> "circle", radius_px |-> size \div 2]
\* the trial without its trial-level kind and size fields
WithoutLegacyFields(t) == [f \in DOMAIN t \ {"kind", "size_px", "size_deg"} |-> t[f]]

\* C13: without an item list the normalized list is the one item derived from
\* the trial-level kind and size (no item when kind is unset); with an item
\* list the trial-level kind and size change nothing.
C13_LegacyPath ==
    SymNormalized =>
        /\ (NoItemList(trial) /\ ~Has(trial, "kind")) => items = <<>>
        /\ (NoItemList(trial) /\ Has(trial, "kind")) =>
              /\ Len(items) = 1
              /\ LET g == LegacyGeometry(trial.kind, LegacySize(trial))
                 IN  \A f \in DOMAIN g : Has(items[1], f) /\ items[1][f] = g[f]
        /\ ~NoItemList(trial) =>
              \E rnd \in RandomDraws :
                  items = normalizeItems(WithoutLegacyFields(trial),
                                         [i \in 1..Len(trial.items) |-> rnd])

\* reached: a legacy trial sized in degrees, and a trial with both an item
\* list and legacy fields
C13_Witness ==
    /\ SymNormalized
    /\ Has(trial, "kind") /\ trial.kind = "stripe"
    /\ NoItemList(trial) /\ Has(trial, "items")
    /\ ~Has(trial, "size_px") /\ Has(trial, "size_deg") /\ Has(trial, "px_per_deg")
    /\ Len(items) = 1 /\ items[1].stripe_len_px = 9

(***************************************************************************)
(* Noise textures (symbol plugin)                                          *)
(***************************************************************************)
NoiseDrawn == { it \in Drawn : it.kind = "texture" /\ it.mode = "noise" }
\* the W x H image drawTextureInto synthesizes for a noise item
NoiseImage(it) ==
    LET W == Max2(2, it.box_w_px)
        H == Max2(2, it.box_h_px)
    IN  [P \in Pixels(W, H) |-> noisePixel(it, W, H, P[1], P[2])]
SameNoiseParams(a, b) ==
    /\ a.seed = b.seed /\ a.box_w_px = b.box_w_px /\ a.box_h_px = b.box_h_px
    /\ a.contrast = b.contrast /\ a.gray = b.gray

C15_SeedsDistinct ==
    SymRunning =>
        \A a \in NoiseDrawn : \A b \in NoiseDrawn :
            a.seed # b.seed =>
                /\ noiseSeed(a) # noiseSeed(b)
                /\ NoiseImage(a) # NoiseImage(b)

(***************************************************************************)
(* Square-wave gratings (symbol plugin)                                    *)
(***************************************************************************)
\* stripes, orientation 0, phase 0, bar width 10, duty 0.5, contrast 0.4,
\* gray 0.5, box 100 x 100
IsGrating(it) ==
    /\ it.kind = "texture" /\ it.mode = "stripes"
    /\ it.orientation_deg = 0 /\ it.phase_deg = 0 /\ it.bar_w_px = 10
    /\ 2 * it.duty = One /\ 5 * it.contrast = 2 * One /\ 2 * it.gray = One
    /\ it.box_w_px = 100 /\ it.box_h_px = 100
\* every column of the texture image has the intensity of its band of 10 columns
BandsOf(it, first, second) ==
    \A P \in Pixels(100, 100) :
        stripesPixel(it, 100, 100, P[1], P[2]) = IF (P[1] \div 10) % 2 = 0 THEN first ELSE second

\* C16 (as stated): the columns of the grating alternate between the
\* intensities 76 and 178 in bands of 10 columns.
C16_Bands_76_178 ==
    SymRunning => \A it \in Drawn : IsGrating(it) => (BandsOf(it, 178, 76) \/ BandsOf(it, 76, 178))

\* C16 (amended): the columns of the grating alternate between the intensities
\* 77 = Math.round(76.5) and 179 = Math.round(178.5) in bands of 10 columns.
C16_Bands_77_179 ==
    SymRunning => \A it \in Drawn : IsGrating(it) => BandsOf(it, 179, 77)

\* reached: the grating is on the canvas, whose 12 columns show columns 44..55
\* of the texture: one light half band and one dark half band
C16_Witness ==
    /\ plugin = "symbol" /\ pc = "rendered" /\ Len(items) = 1 /\ IsGrating(items[1])
    /\ \A P \in Pixels(CanvasW, CanvasH) : canvas[P] \in {77, 179}
    /\ \E P \in Pixels(CanvasW, CanvasH) : canvas[P] = 77
    /\ \E P \in Pixels(CanvasW, CanvasH) : canvas[P] = 179

(***************************************************************************)
(* Additive blending                                                       *)
(***************************************************************************)
\* the level patch p alone produces at pixel P on the trial's background
PatchAlone(p, P) ==
    clamp01(drawPatch(newFloatBuf(trial.bg_gray, trial.canvas_width, trial.canvas_height), p,
                      trial.bg_gray, trial.blend_mode, trial.canvas_width, trial.canvas_height)[P])

\* C17: under blend_mode "add" two patches whose own levels at a pixel are a
\* and b give min(a + b, 1) at that pixel.
C17_AddSaturates ==
    (GabRendered /\ trial.blend_mode = "add" /\ InUnit(trial.bg_gray) /\ Len(patches) = 2) =>
        \A P \in Pixels(CanvasW, CanvasH) :
            canvas[P] = ToByte(Min2(PatchAlone(patches[1], P) + PatchAlone(patches[2], P), One))

(***************************************************************************)
(* Gaussian window                                                         *)
(***************************************************************************)
\* the quantized gaussian profile at pixel B of the layer, measured from the
\* mask centre
gaussianAt(it, W, H, B) ==
    LET l == InvM2(maskTransform(it, W, H), 2 * B[1] + 1, 2 * B[2] + 1)
    IN  softAlpha(it, windowRadius(it, W, H), PixOf(l[1]), PixOf(l[2]))

\* C18: a gaussian window applies the quantized value of exp(-r^2/(2 sigma^2))
\* at every pixel of the layer, with no cutoff determined by the radius R.
C18_GaussianNoCutoff ==
    SymRunning =>
        \A it \in Drawn :
            it.window = "gaussian" =>
                \A B \in Pixels(CanvasW, CanvasH) :
                    maskAlpha(it, CanvasW, CanvasH, B) = gaussianAt(it, CanvasW, CanvasH, B)

(***************************************************************************)
(* Both plugins: a trial from rendering to its end                         *)
(***************************************************************************)
InitPlugins == InitSymbol \/ InitGabor
NextPlugins == NextSymbol \/ NextGabor
SpecPlugins == InitPlugins /\ [][NextPlugins]_vars

\* some listener or timer of the trial exists, or a callback has ended the trial
Armed ==
    \/ keyboardListener # "null" \/ endTimeout # "null"
    \/ pluginAPI # {} \/ listeners # {} \/ timers # {}
    \/ finishTrial # <<>>

\* every item / patch has been drawn and the canvas shows the whole stimulus
FullyDrawn ==
    IF plugin = "gabor-array"
    THEN /\ k = Len(patches)
         /\ canvas = drawPatches(patches, trial.bg_gray, trial.blend_mode,
                                 trial.canvas_width, trial.canvas_height)
    ELSE /\ k = Len(items)
         /\ canvas = drawAll(fillBackground(trial.bg_gray, trial.canvas_width, trial.canvas_height),
                             items, Len(items), trial)

\* C19: in both plugins every item / patch is drawn to completion before any
\* keyboard listener, mouse listener or end timer is installed, so that no
\* callback runs on a partly drawn stimulus.
C19_DrawnBeforeArmed == Armed => (pc \in {"waiting", "finished"} /\ FullyDrawn)

C19_Witness ==
    /\ plugin = "symbol" /\ pc = "waiting" /\ Len(items) = 2
    /\ pluginAPI # {} /\ listeners # {} /\ timers # {}

\* 0: not rendered, 1: rendered, 2: torn down (with or without a response)
Phase ==
    IF finishTrial # <<>> THEN 2
    ELSE IF pc \in {"rendered", "waiting"} THEN 1
    ELSE 0

TornDown ==
    /\ pc = "finished" /\ display_element = ""
    /\ timers = {} /\ endTimeout = "null"
    /\ pluginAPI = {} /\ keyboardListener = "null"

\* C20: a trial only moves not rendered -> rendered -> torn down; whatever
\* the interleaving of key presses, mouse presses and the timeout, finishTrial
\* is called at most once, and from then on the end timer is cleared and the
\* keyboard listener is cancelled.
C20_EndsOnce ==
    /\ [](Len(finishTrial) <= 1 /\ (finishTrial # <<>> => TornDown))
    /\ [][Phase' \in {Phase, Phase + 1}]_vars

\* a key press ended a trial that also had a mouse listener and an end timer
C20_Witness ==
    /\ Len(finishTrial) = 1 /\ finishTrial[1].resp_key \in {"f", "ArrowLeft"}
    /\ Param("allow_mouse") /\ td # <<>>
    /\ listeners # {}

(***************************************************************************)
(* The completion record and the missing drawing context                   *)
(***************************************************************************)
\* C21: in the completion record rt is null exactly when the participant made
\* no response: a valid key press or a mouse press before the end of the
\* trial gives a non-null rt (and the key, for a key press), whatever
\* end_on_response is.
C21_RtIffResponse ==
    finishTrial # <<>> =>
        /\ (finishTrial[1].rt = "null") <=> (presses = {})
        /\ (presses \ {"mousedown"} # {}) => finishTrial[1].resp_key \in presses

\* C22: without a 2D context trial() raises at once: nothing is drawn, no
\* listener or timer is installed and finishTrial is not called.
C22_NoContextAborts ==
    ctx = "null" =>
        /\ pc \in {"start", "error"}
        /\ canvas = [P \in Pixels(CanvasW, CanvasH) |-> 0]
        /\ keyboardListener = "null" /\ endTimeout = "null"
        /\ pluginAPI = {} /\ listeners = {} /\ timers = {}
        /\ finishTrial = <<>>

C22_Witness ==
    /\ ctx = "null" /\ pc = "error"
    /\ Has(trial, "response_keys") /\ Len(trial.response_keys) > 0
    /\ Has(trial, "timeout_ms")

(***************************************************************************)
(* trolley-problem plugin.  pc: start -> loading (createTrolleyProblem is   *)
(* awaited) -> shown (tracks in the display element) -> finished            *)
(***************************************************************************)
\* performance.now(), in clock ticks
performanceNow == origin + now * TicksPerMs

\* let response = { rt: null, action: null, choice: null }
TrolleyBegin ==
    /\ plugin = "trolley-problem" /\ pc = "start"
    /\ trolley' = [response |-> [rt |-> Null, action |-> Null, choice |-> Null],
                   shown_at |-> Null, clicked_at |-> Null]
    /\ pc' = "loading"
    /\ UNCHANGED <<drawVars, display_element, respVars, presses, ctx, origin, now, rsvp>>

\* the continuation after the await: both tracks with their onclick handlers
\* are appended, then the timer is set if trial_duration !== null
TrolleyShow ==
    /\ plugin = "trolley-problem" /\ pc = "loading"
    /\ display_element' = "tracks"
    /\ timers' = IF Has(trial, "trial_duration")
                 THEN timers \cup {[callback |-> "end_trial", due |-> now + trial.trial_duration]}
                 ELSE timers
    /\ trolley' = [trolley EXCEPT !.shown_at = <<now>>]
    /\ pc' = "shown"
    /\ UNCHANGED <<drawVars, keyboardListener, endTimeout, pluginAPI, listeners, finishTrial,
                   presses, ctx, origin, now, rsvp>>

\* a millisecond passes; a timer that is due fires first
TrolleyTick ==
    /\ plugin = "trolley-problem"
    /\ now < MaxNow
    /\ \A t \in timers : t.due > now
    /\ now' = now + 1
    /\ UNCHANGED <<drawVars, pc, display_element, respVars, presses, ctx, origin, rsvp, trolley>>

\* end_trial(), called while the closure holds the response r
end_trial(r) ==
    finishTrial' = Append(finishTrial,
                          [rt |-> r.rt, main_track |-> trial.main_track,
                           side_track |-> trial.side_track,
                           action |-> r.action, choice |-> r.choice])

\* mainTrack.onclick / sideTrack.onclick -> after_response(info)
after_response(info) ==
    LET r == IF trolley.response.action = Null THEN info ELSE trolley.response
    IN  /\ trolley' = [trolley EXCEPT !.response = r,
                                      !.clicked_at = IF @ = Null THEN <<now>> ELSE @]
        /\ end_trial(r)

TrolleyClickMain ==
    /\ plugin = "trolley-problem" /\ display_element = "tracks"
    /\ Len(finishTrial) < MaxCalls
    /\ after_response([action |-> <<"nothing">>, choice |-> <<"main">>, rt |-> <<performanceNow>>])
    /\ presses' = presses \cup {"main"}
    /\ pc' = "finished"
    /\ UNCHANGED <<drawVars, display_element, keyboardListener, endTimeout, pluginAPI, listeners,
                   timers, ctx, origin, now, rsvp>>

TrolleyClickSide ==
    /\ plugin = "trolley-problem" /\ display_element = "tracks"
    /\ Len(finishTrial) < MaxCalls
    /\ after_response([action |-> <<"flip">>, choice |-> <<"side">>, rt |-> <<performanceNow>>])
    /\ presses' = presses \cup {"side"}
    /\ pc' = "finished"
    /\ UNCHANGED <<drawVars, display_element, keyboardListener, endTimeout, pluginAPI, listeners,
                   timers, ctx, origin, now, rsvp>>

\* the timer set with pluginAPI.setTimeout(end_trial, trial_duration) fires
TrolleyTimeout ==
    /\ plugin = "trolley-problem"
    /\ \E t \in timers :
          /\ t.due <= now
          /\ timers' = timers \ {t}
    /\ end_trial(trolley.response)
    /\ pc' = "finished"
    /\ UNCHANGED <<drawVars, display_element, keyboardListener, endTimeout, pluginAPI, listeners,
                   presses, ctx, origin, now, rsvp, trolley>>

NextTrolley ==
    \/ TrolleyBegin \/ TrolleyShow \/ TrolleyTick
    \/ TrolleyClickMain \/ TrolleyClickSide \/ TrolleyTimeout

\* people on a track
Person == [gender |-> "male", body_type |-> "business", skin |-> "white"]
TrolleyTrials ==
    { [main_track |-> mt, side_track |-> st, show_prompt |-> TRUE] @@ tdur :
        mt \in {<<Person>>, <<Person, Person>>}, st \in {<<>>, <<Person>>},
        tdur \in {Empty, [trial_duration |-> 0], [trial_duration |-> 3]} }
\* values of performance.now() at the call of trial(), in ticks
Origins == {0, 7}

InitTrolley ==
    /\ plugin = "trolley-problem"
    /\ pc = "start"
    /\ trial \in TrolleyTrials
    /\ items = <<>> /\ k = 0 /\ canvas = <<>> /\ patches = <<>> /\ floatBuf = <<>>
    /\ display_element = ""
    /\ keyboardListener = "null" /\ endTimeout = "null"
    /\ pluginAPI = {} /\ listeners = {} /\ timers = {}
    /\ finishTrial = <<>>
    /\ ctx = "2d" /\ presses = {}
    /\ origin \in Origins /\ now = 0
    /\ rsvp = <<>> /\ trolley = <<>>

SpecTrolley == InitTrolley /\ [][NextTrolley]_vars

\* C23: the recorded rt is the time from the appearance of the stimulus to
\* the click, in milliseconds, and null when the trial ends without a click.
C23_RtFromOnset ==
    Len(finishTrial) = 1 =>
        finishTrial[1].rt =
            IF trolley.clicked_at = Null THEN Null
            ELSE <<(trolley.clicked_at[1] - trolley.shown_at[1]) * TicksPerMs>>

\* C30: finishTrial is called at most once per trial, whatever the
\* interleaving of clicks on the two tracks and the timer, and the record has
\* the action and choice of the first click: flip with side, nothing with
\* main, both null on timeout.
C30_OneRecord ==
    /\ Len(finishTrial) <= 1
    /\ \A n \in 1..Len(finishTrial) :
          <<finishTrial[n].action, finishTrial[n].choice>> \in
              { <<Null, Null>>, <<<<"flip">>, <<"side">>>>, <<<<"nothing">>, <<"main">>>> }

(***************************************************************************)
(* gabor-array: the chosen patch                                           *)
(***************************************************************************)
\* the lowest index among the patches whose x_px is smallest / largest
LeftMost(ps) ==
    CHOOSE i \in 0..(Len(ps) - 1) :
        \A j \in 0..(Len(ps) - 1) :
            ps[i + 1].x_px < ps[j + 1].x_px \/ (ps[i + 1].x_px = ps[j + 1].x_px /\ i <= j)
RightMost(ps) ==
    CHOOSE i \in 0..(Len(ps) - 1) :
        \A j \in 0..(Len(ps) - 1) :
            ps[i + 1].x_px > ps[j + 1].x_px \/ (ps[i + 1].x_px = ps[j + 1].x_px /\ i <= j)

Mapped(key) == Has(trial, "keymap_to_patch_index") /\ key \in DOMAIN trial.keymap_to_patch_index

\* the choice the key of record d stands for
KeyChoice(d) ==
    IF Mapped(d.resp_key) THEN d.chosen_patch_index = <<trial.keymap_to_patch_index[d.resp_key]>>
    ELSE IF d.resp_key \in {"ArrowLeft", "ArrowRight"} /\ Len(patches) = 0
    THEN d.chosen_patch_index = Null
    ELSE IF d.resp_key = "ArrowLeft" THEN d.chosen_patch_index = <<LeftMost(patches)>>
    ELSE IF d.resp_key = "ArrowRight" THEN d.chosen_patch_index = <<RightMost(patches)>>
    ELSE TRUE

IndexInRange(d) ==
    d.chosen_patch_index = Null \/ d.chosen_patch_index[1] \in 0..(d.n_patches - 1)

\* C24: a key of keymap_to_patch_index selects the mapped index; otherwise
\* ArrowLeft / ArrowRight select the lowest index with the smallest / largest
\* x_px (null without patches); chosen_patch_index is always null or an
\* index of a patch.
C24_ChosenPatch ==
    (plugin = "gabor-array" /\ finishTrial # <<>>) =>
        /\ finishTrial[1].resp_key # "null" => KeyChoice(finishTrial[1])
        /\ IndexInRange(finishTrial[1])

(***************************************************************************)
(* rsvp: floating-point times                                              *)
(*                                                                         *)
(* Times are numbers of clock ticks.  t0 = performance.now() is a          *)
(* fraction of a millisecond, and every + and - of the schedule is a       *)
(* floating-point operation: its exact result is rounded to the nearest    *)
(* number with MantissaBits significant bits, ties to the even one.        *)
(***************************************************************************)
RECURSIVE Ulp(_)
Ulp(x) == IF x < 2 ^ MantissaBits THEN 1 ELSE 2 * Ulp(x \div 2)
FlNat(x) ==
    LET u == Ulp(x)
        q == x \div u
        r == x % u
    IN  IF 2 * r < u THEN q * u
        ELSE IF 2 * r > u THEN (q + 1) * u
        ELSE IF q % 2 = 0 THEN q * u ELSE (q + 1) * u
Fl(x) == IF x < 0 THEN 0 - FlNat(0 - x) ELSE FlNat(x)
FAdd(a, b) == Fl(a + b)
FSub(a, b) == Fl(a - b)
Ms(n) == n * TicksPerMs
MathMax(a, b) == IF a >= b THEN a ELSE b
\* the delay of window.setTimeout is converted to an integer number of
\* milliseconds by truncation
ToLong(d) == d \div TicksPerMs

(***************************************************************************)
(* rsvp: trial()                                                           *)
(***************************************************************************)
Range(f) == { f[i] : i \in DOMAIN f }

\* choices is written as a list: <<"ALL">>, <<"NO_KEYS">> or the key names
RsvpDefaults ==
    [stimulus_duration |-> 100, isi |-> 0, choices |-> <<"ALL">>,
     response_ends_trial |-> FALSE, targets |-> <<>>, record_timestamps |-> TRUE]
RsvpParam(f) == IF Has(trial, f) THEN trial[f] ELSE RsvpDefaults[f]

\* normalizeStreams, object form: a missing id is named after the position
streamId(raw, i) ==
    IF Has(raw[i], "id") THEN raw[i].id
    ELSE IF Len(raw) = 1 THEN "center"
    ELSE IF Len(raw) = 2 THEN (IF i = 1 THEN "left" ELSE "right")
    ELSE "s"
normalizeStreams(raw) ==
    [i \in 1..Len(raw) |->
        [id |-> streamId(raw, i), items |-> Get(raw[i], "items", <<>>)]
        @@ (IF Has(raw[i], "offset_ms") THEN [offset_ms |-> raw[i].offset_ms] ELSE Empty)]

\* visualOrder: the ids of stream_order that name a stream, else every stream
visualOrder(t, streams) ==
    IF Has(t, "stream_order")
    THEN { id \in Range(t.stream_order) : \E i \in 1..Len(streams) : streams[i].id = id }
    ELSE { streams[i].id : i \in 1..Len(streams) }

\* the content of a box after an offset callback, and before the first item
maskContent(t) == IF Has(t, "mask_html") THEN t.mask_html ELSE ""

\* the schedule entries of stream s, t0 being performance.now()
streamSchedule(s, t0, t) ==
    LET soa  == Ms(t.stimulus_duration + t.isi)
        base == FAdd(t0, Ms(Get(s, "offset_ms", 0)))
    IN  [n \in 1..Len(s.items) |->
            LET onset == FAdd(base, (n - 1) * soa)
            IN  [stream_id |-> s.id, index |-> n - 1, onset |-> onset,
                 offset |-> FAdd(onset, Ms(t.stimulus_duration)), content |-> s.items[n]]]
RECURSIVE scheduleFrom(_, _, _, _)
scheduleFrom(streams, n, t0, t) ==
    IF n > Len(streams) THEN <<>>
    ELSE streamSchedule(streams[n], t0, t) \o scheduleFrom(streams, n + 1, t0, t)

\* parsedCorrectKeys: trial.correct_keys is held as the list of its
\* comma-separated pieces; the empty string has none
parsedCorrectKeys(t) ==
    IF Has(t, "correct_keys") /\ Len(t.correct_keys) > 0
    THEN [kind |-> "array", keys |-> [i \in 1..Len(t.correct_keys) |-> toLowerCase(t.correct_keys[i])]]
    ELSE [kind |-> "null"]

\* schedule.find(...)?.onset ?? NaN  (Null stands for NaN)
findOnset(schedule, tg) ==
    LET found == { n \in 1..Len(schedule) :
                     schedule[n].stream_id = tg.stream_id /\ schedule[n].index = tg.index }
    IN  IF found = {} THEN Null
        ELSE <<schedule[CHOOSE n \in found : \A m \in found : n <= m].onset>>

\* targetsRuntime: correct_keys is [kind |-> "ALL"], [kind |-> "null"] or
\* [kind |-> "array", keys |-> ...]; window is Null or <<milliseconds>>
targetRuntime(tg, schedule, t) ==
    [stream_id |-> tg.stream_id, index |-> tg.index,
     onset |-> findOnset(schedule, tg),
     window |-> IF Has(tg, "response_window") THEN tg.response_window
                ELSE IF Has(t, "response_window") THEN <<t.response_window>> ELSE Null,
     correct_keys |-> IF Has(tg, "correct_keys") THEN tg.correct_keys ELSE parsedCorrectKeys(t),
     hit |-> FALSE, key |-> Null, rt |-> Null]

\* pluginAPI.setTimeout: timer n of the trial, counted in the order of the
\* calls; the delay is Math.max(0, at - t0)
setTimeout(n, callback, item, at, t0) ==
    [id |-> n, callback |-> callback, item |-> item, due |-> now + ToLong(MathMax(0, FSub(at, t0)))]

\* the two timers of every schedule entry, then the timer that ends the trial
presentTimers(schedule, t0) ==
    UNION { { setTimeout(2 * n - 1, "onset", n, schedule[n].onset, t0),
              setTimeout(2 * n, "offset", n, schedule[n].offset, t0) } : n \in 1..Len(schedule) }
RECURSIVE lastOffsetFrom(_, _, _)
lastOffsetFrom(schedule, n, m) ==
    IF n > Len(schedule) THEN m
    ELSE lastOffsetFrom(schedule, n + 1, MathMax(m, schedule[n].offset))
hardStop(schedule, t0, t) ==
    IF Has(t, "trial_duration") THEN FAdd(t0, Ms(t.trial_duration))
    ELSE FAdd(lastOffsetFrom(schedule, 1, t0), Ms(t.isi))

\* trial(): everything up to the return, performance.now() being origin
RsvpBegin ==
    /\ plugin = "rsvp" /\ pc = "start"
    /\ LET t        == [f \in DOMAIN RsvpDefaults \cup DOMAIN trial |-> RsvpParam(f)]
           streams  == normalizeStreams(Get(trial, "streams", <<>>))
           t0       == origin
           schedule == scheduleFrom(streams, 1, t0, t)
           n        == Len(schedule)
       IN  /\ display_element' = "rsvp"
           /\ timers' = presentTimers(schedule, t0)
                          \cup { setTimeout(2 * n + 1, "end_trial", 0, hardStop(schedule, t0, t), t0) }
           /\ IF t.choices # <<"NO_KEYS">>
              THEN keyboardListener' = "listener" /\ pluginAPI' = pluginAPI \cup {"listener"}
              ELSE UNCHANGED <<keyboardListener, pluginAPI>>
           /\ rsvp' = [schedule |-> schedule,
                       targetsRuntime |-> [i \in 1..Len(t.targets) |->
                                              targetRuntime(t.targets[i], schedule, t)],
                       streamBoxes |-> [id \in visualOrder(t, streams) |-> maskContent(t)],
                       timeouts |-> 1..(2 * n + 1),
                       responses |-> <<>>, firstKey |-> Null, firstRt |-> Null,
                       ran |-> {}, gone |-> {}]
    /\ pc' = "running"
    /\ UNCHANGED <<drawVars, endTimeout, listeners, finishTrial, presses, ctx, origin, now, trolley>>

(***************************************************************************)
(* rsvp: the callbacks                                                     *)
(***************************************************************************)
\* the pending timer the browser runs next: the earliest one that is due,
\* the one set first among equals
NextTimer(t) ==
    /\ t \in timers /\ t.due <= now
    /\ \A u \in timers : u.due > t.due \/ (u.due = t.due /\ u.id >= t.id)

\* time passes while no timer is due
RsvpTick ==
    /\ plugin = "rsvp"
    /\ pc = "running" \/ timers # {}
    /\ \A t \in timers : t.due > now
    /\ now' = now + 1
    /\ UNCHANGED <<drawVars, display_element, respVars, presses, pc, ctx, origin, rsvp, trolley>>

\* box.innerHTML = html, when the stream has a box
setBox(boxes, id, html) ==
    IF id \in DOMAIN boxes THEN [boxes EXCEPT ![id] = html] ELSE boxes

\* the onset callback of a schedule entry
RsvpOnset ==
    /\ plugin = "rsvp"
    /\ \E t \in timers :
         /\ NextTimer(t) /\ t.callback = "onset"
         /\ timers' = timers \ {t}
         /\ LET item == rsvp.schedule[t.item]
            IN  rsvp' = [rsvp EXCEPT !.streamBoxes = setBox(@, item.stream_id, item.content),
                                     !.ran = @ \cup {t.item}]
    /\ UNCHANGED <<drawVars, display_element, keyboardListener, endTimeout, pluginAPI, listeners,
                   finishTrial, presses, pc, ctx, origin, now, trolley>>

\* the offset callback of a schedule entry
RsvpOffset ==
    /\ plugin = "rsvp"
    /\ \E t \in timers :
         /\ NextTimer(t) /\ t.callback = "offset"
         /\ timers' = timers \ {t}
         /\ LET item == rsvp.schedule[t.item]
            IN  rsvp' = [rsvp EXCEPT !.streamBoxes = setBox(@, item.stream_id, maskContent(trial)),
                                     !.gone = @ \cup {t.item}]
    /\ UNCHANGED <<drawVars, display_element, keyboardListener, endTimeout, pluginAPI, listeners,
                   finishTrial, presses, pc, ctx, origin, now, trolley>>

\* for (const to of this.timeouts) clearTimeout(to)
clearTimeouts_none(tms, ids) == tms
clearTimeouts(tms, ids) == { t \in tms : t.id \notin ids }

\* trial_data, r being the closure's variables when end_trial runs; onset
\* and offset are in ticks, rt in milliseconds
trialData(r) ==
    [key_press |-> r.firstKey, rt |-> r.firstRt, responses |-> r.responses,
     targets |-> [i \in 1..Len(r.targetsRuntime) |->
                    LET tg == r.targetsRuntime[i]
                    IN  [stream_id |-> tg.stream_id, index |-> tg.index,
                         onset |-> IF tg.onset = Null THEN Null ELSE <<FSub(tg.onset[1], origin)>>,
                         window |-> tg.window, hit |-> tg.hit, key |-> tg.key, rt |-> tg.rt]],
     schedule |-> IF RsvpParam("record_timestamps")
                  THEN <<[n \in 1..Len(r.schedule) |->
                            [stream_id |-> r.schedule[n].stream_id, index |-> r.schedule[n].index,
                             onset |-> FSub(r.schedule[n].onset, origin),
                             offset |-> FSub(r.schedule[n].offset, origin),
                             content |-> r.schedule[n].content]]>>
                  ELSE Null]

\* end_trial, called from a callback that left the variables r, the
\* registered listeners api and the pending timers tms behind
RsvpEndTrial(r, api, tms) ==
    /\ timers' = clearTimeouts(tms, r.timeouts)
    /\ rsvp' = [r EXCEPT !.timeouts = {}]
    /\ pluginAPI' = IF keyboardListener # "null" THEN api \ {keyboardListener} ELSE api
    /\ display_element' = ""
    /\ finishTrial' = Append(finishTrial, trialData(r))
    /\ pc' = "finished"

\* the timer set for hardStop
RsvpEndTimer ==
    /\ plugin = "rsvp"
    /\ \E t \in timers :
         /\ NextTimer(t) /\ t.callback = "end_trial"
         /\ RsvpEndTrial(rsvp, pluginAPI, timers \ {t})
    /\ UNCHANGED <<drawVars, keyboardListener, endTimeout, listeners, presses, ctx, origin, now,
                   trolley>>

\* evaluateHit: the index of the target the press is credited to, 0 if none
within(tg, rt) ==
    IF tg.window = Null THEN TRUE
    ELSE LET rel == FSub(tg.onset[1], origin)
         IN  Ms(rt) >= rel /\ Ms(rt) <= FAdd(rel, Ms(tg.window[1]))
keyOk(tg, keyLower) ==
    IF tg.correct_keys.kind \in {"ALL", "null"} THEN TRUE
    ELSE \E i \in 1..Len(tg.correct_keys.keys) : toLowerCase(tg.correct_keys.keys[i]) = keyLower
RECURSIVE creditedFrom(_, _, _, _)
creditedFrom(tgs, i, keyLower, rt) ==
    IF i > Len(tgs) THEN 0
    ELSE IF tgs[i].hit \/ tgs[i].onset = Null THEN creditedFrom(tgs, i + 1, keyLower, rt)
    ELSE IF ~within(tgs[i], rt) THEN creditedFrom(tgs, i + 1, keyLower, rt)
    ELSE IF keyOk(tgs[i], keyLower) THEN i
    ELSE creditedFrom(tgs, i + 1, keyLower, rt)
\* mutant: the loop goes on after a hit (no break)
evaluateHit_all(tgs, keyLower, rt) ==
    [i \in 1..Len(tgs) |->
        IF ~tgs[i].hit /\ tgs[i].onset # Null /\ within(tgs[i], rt) /\ keyOk(tgs[i], keyLower)
        THEN [tgs[i] EXCEPT !.hit = TRUE, !.key = <<keyLower>>, !.rt = <<rt>>]
        ELSE tgs[i]]
evaluateHit(tgs, keyLower, rt) ==
    LET i == creditedFrom(tgs, 1, keyLower, rt)
    IN  IF i = 0 THEN tgs
        ELSE [tgs EXCEPT ![i] = [@ EXCEPT !.hit = TRUE, !.key = <<keyLower>>, !.rt = <<rt>>]]

\* keys the participant may press during an RSVP trial
RsvpKeys == {"f", "F", "j"}

\* valid_responses of the keyboard listener (key names are compared in lower case)
validResponse(key) ==
    \/ RsvpParam("choices") = <<"ALL">>
    \/ \E i \in 1..Len(RsvpParam("choices")) :
          toLowerCase(RsvpParam("choices")[i]) = toLowerCase(key)

\* the callback of the keyboard listener; info.rt is the time since the
\* listener was set, in whole milliseconds
RsvpKeyboard ==
    /\ plugin = "rsvp"
    /\ keyboardListener \in pluginAPI
    /\ Len(rsvp.responses) < MaxPresses
    /\ \E info_key \in RsvpKeys :
         /\ validResponse(info_key)
         /\ LET key == toLowerCase(info_key)
                rt  == now
                r   == [rsvp EXCEPT
                          !.firstKey = IF @ = Null THEN <<key>> ELSE @,
                          !.firstRt = IF rsvp.firstKey = Null THEN <<rt>> ELSE @,
                          !.responses = Append(@, [key |-> key, rt |-> rt]),
                          !.targetsRuntime = evaluateHit(@, key, rt)]
            IN  IF RsvpParam("response_ends_trial")
                THEN RsvpEndTrial(r, pluginAPI \ {keyboardListener}, timers)
                ELSE /\ rsvp' = r
                     /\ UNCHANGED <<pluginAPI, timers, display_element, finishTrial, pc>>
    /\ UNCHANGED <<drawVars, keyboardListener, endTimeout, listeners, presses, ctx, origin, now,
                   trolley>>

NextRsvp ==
    \/ RsvpBegin \/ RsvpTick \/ RsvpOnset \/ RsvpOffset \/ RsvpEndTimer \/ RsvpKeyboard

(***************************************************************************)
(* rsvp: the trials that are followed                                      *)
(***************************************************************************)
OneStream  == << [items |-> <<"A", "B", "C">>] >>
TwoStreams == << [id |-> "left", items |-> <<"A", "B">>],
                 [id |-> "right", items |-> <<"X">>, offset_ms |-> 1] >>

\* streams and timing, without a keyboard
TimingTrials ==
    { [streams |-> ss, stimulus_duration |-> dur, isi |-> isi, choices |-> <<"NO_KEYS">>]
        @@ mask @@ order :
        ss \in {OneStream, TwoStreams}, dur \in {1, 3}, isi \in {0, 1},
        mask \in {Empty, [mask_html |-> "#"]},
        order \in {Empty, [stream_order |-> <<"left", "up">>]} }

InStream(i) == [stream_id |-> "center", index |-> i]
TargetLists ==
    { <<>>,
      << InStream(1) >>,
      << InStream(1) @@ [response_window |-> <<1>>, correct_keys |-> [kind |-> "array", keys |-> <<"F">>]],
         InStream(2) @@ [response_window |-> Null, correct_keys |-> [kind |-> "ALL"]] >>,
      << [stream_id |-> "nope", index |-> 0], InStream(9), InStream(0) >>,
      << InStream(1), InStream(1) >> }

\* key presses and targets
TargetTrials ==
    { [streams |-> OneStream, stimulus_duration |-> 1, isi |-> 1, targets |-> tgs,
       response_ends_trial |-> ends] @@ dflt @@ more :
        tgs \in TargetLists, ends \in BOOLEAN,
        dflt \in {Empty, [response_window |-> 2, correct_keys |-> <<"F", "j">>]},
        more \in {Empty, [trial_duration |-> 3],
                  [choices |-> <<"f", "J">>, trial_duration |-> 3, record_timestamps |-> FALSE]} }

RsvpTrials == TimingTrials \cup TargetTrials

\* values of performance.now() at the call of trial(), in ticks
RsvpOrigins == {0, 61}

InitRsvp ==
    /\ plugin = "rsvp"
    /\ pc = "start"
    /\ trial \in RsvpTrials
    /\ items = <<>> /\ k = 0 /\ canvas = <<>> /\ patches = <<>> /\ floatBuf = <<>>
    /\ display_element = ""
    /\ keyboardListener = "null" /\ endTimeout = "null"
    /\ pluginAPI = {} /\ listeners = {} /\ timers = {}
    /\ finishTrial = <<>>
    /\ ctx = "2d" /\ presses = {}
    /\ origin \in RsvpOrigins /\ now = 0
    /\ rsvp = <<>> /\ trolley = <<>>

SpecRsvp == InitRsvp /\ [][NextRsvp]_vars

\* time passes, and timers that are due run
SpecRsvpFair ==
    /\ SpecRsvp
    /\ WF_vars(RsvpTick)
    /\ WF_vars(RsvpOnset) /\ WF_vars(RsvpOffset) /\ WF_vars(RsvpEndTimer)

(***************************************************************************)
(* rsvp: presentation                                                      *)
(***************************************************************************)
RsvpStarted == plugin = "rsvp" /\ pc # "start"
Entries == 1..Len(rsvp.schedule)
Stream(id) == CHOOSE s \in Range(normalizeStreams(trial.streams)) : s.id = id

\* the schedule holds, relative to t0, offset_ms + i * (stimulus_duration + isi)
\* and that plus stimulus_duration
NominalTimes ==
    \A n \in Entries :
        LET e  == rsvp.schedule[n]
            on == Ms(Get(Stream(e.stream_id), "offset_ms", 0)
                       + e.index * (trial.stimulus_duration + trial.isi))
        IN  /\ FSub(e.onset, origin) = on
            /\ FSub(e.offset, origin) = on + Ms(trial.stimulus_duration)

\* a box shows the item whose onset callback has run and whose offset
\* callback has not, and the mask (or nothing) when there is no such item
ShownUntilOffset ==
    \A id \in DOMAIN rsvp.streamBoxes :
        LET on == { n \in rsvp.ran \ rsvp.gone : rsvp.schedule[n].stream_id = id }
        IN  /\ \A n \in on : rsvp.streamBoxes[id] = rsvp.schedule[n].content
            /\ on = {} => rsvp.streamBoxes[id] = maskContent(trial)

\* without a gap, an item is taken off before the next one of its stream is put on
OffsetBeforeNextOnset ==
    trial.isi = 0 =>
        \A n, m \in Entries :
            ( /\ rsvp.schedule[n].stream_id = rsvp.schedule[m].stream_id
              /\ rsvp.schedule[m].index = rsvp.schedule[n].index + 1
              /\ m \in rsvp.ran ) => n \in rsvp.gone

\* C25: item i of a stream is scheduled at offset_ms + i * (stimulus_duration
\* + isi) and taken off stimulus_duration later; while the trial runs its box
\* shows it from its onset callback to its offset callback and the mask
\* afterwards; with isi = 0 the offset callback of item i runs before the onset
\* callback of item i + 1.
C25_ShownFromOnsetToOffset ==
    (RsvpStarted /\ pc = "running") =>
        NominalTimes /\ ShownUntilOffset /\ OffsetBeforeNextOnset

(***************************************************************************)
(* rsvp: hits                                                              *)
(***************************************************************************)
\* the targets a press of key at rt milliseconds may be credited to
Admits(tg, key) ==
    \/ tg.correct_keys.kind \in {"ALL", "null"}
    \/ key \in { toLowerCase(c) : c \in Range(tg.correct_keys.keys) }
InWindow(tg, rt) ==
    \/ tg.window = Null
    \/ /\ FSub(tg.onset[1], origin) <= Ms(rt)
       /\ Ms(rt) <= FSub(tg.onset[1], origin) + Ms(tg.window[1])
Eligible(tgs, key, rt) ==
    { i \in 1..Len(tgs) :
        ~tgs[i].hit /\ tgs[i].onset # Null /\ InWindow(tgs[i], rt) /\ Admits(tgs[i], key) }
Scheduled(tg) ==
    \E n \in Entries : rsvp.schedule[n].stream_id = tg.stream_id /\ rsvp.schedule[n].index = tg.index

\* what a key press does to the targets
PressCredits ==
    Len(rsvp'.responses) = Len(rsvp.responses) + 1 =>
        LET press == rsvp'.responses[Len(rsvp'.responses)]
            el    == Eligible(rsvp.targetsRuntime, press.key, press.rt)
        IN  \A i \in 1..Len(rsvp.targetsRuntime) :
                IF el # {} /\ i = CHOOSE j \in el : \A m \in el : j <= m
                THEN rsvp'.targetsRuntime[i] =
                        [rsvp.targetsRuntime[i] EXCEPT !.hit = TRUE, !.key = <<press.key>>,
                                                       !.rt = <<press.rt>>]
                ELSE rsvp'.targetsRuntime[i] = rsvp.targetsRuntime[i]
\* what every other step does to them
HitsKept ==
    /\ Len(rsvp'.responses) = Len(rsvp.responses) => rsvp'.targetsRuntime = rsvp.targetsRuntime
    /\ \A i \in 1..Len(rsvp.targetsRuntime) :
          rsvp.targetsRuntime[i].hit => rsvp'.targetsRuntime[i] = rsvp.targetsRuntime[i]
    /\ \A i \in 1..Len(rsvp.targetsRuntime) :
          rsvp'.targetsRuntime[i].hit => Scheduled(rsvp.targetsRuntime[i])

\* C26: a key press marks at most one target as hit, the first one in list
\* order that is not hit yet, has a scheduled onset, whose window (if any)
\* contains the press and whose correct keys admit the key; a hit target keeps
\* its key and rt, and a target naming no item of the schedule is never hit.
C26_OneHitPerPress ==
    [][RsvpStarted => PressCredits /\ HitsKept]_vars

\* two targets were open to the same press, and only the first one was credited
C26_Witness ==
    /\ RsvpStarted
    /\ Len(rsvp.targetsRuntime) = 2 /\ Len(rsvp.responses) = 1
    /\ rsvp.targetsRuntime[1].hit /\ ~rsvp.targetsRuntime[2].hit
    /\ rsvp.targetsRuntime[1].index = rsvp.targetsRuntime[2].index
    /\ rsvp.targetsRuntime[2].onset # Null
    /\ InWindow(rsvp.targetsRuntime[2], rsvp.responses[1].rt)
    /\ Admits(rsvp.targetsRuntime[2], rsvp.responses[1].key)

\* the record handed to finishTrial
RsvpData == finishTrial[1]

\* C27: a target is hit only by a key press made at or after its onset: every
\* target reported with hit = true has rt >= onset, also without a response
\* window.
C27_HitAfterOnset ==
    (plugin = "rsvp" /\ finishTrial # <<>>) =>
        \A i \in 1..Len(RsvpData.targets) :
            RsvpData.targets[i].hit => Ms(RsvpData.targets[i].rt[1]) >= RsvpData.targets[i].onset[1]

\* C28: every entry of the reported schedule is an item whose onset callback
\* ran before the trial ended.
C28_ScheduleWasShown ==
    (plugin = "rsvp" /\ finishTrial # <<>> /\ RsvpData.schedule # Null) =>
        \A n \in 1..Len(RsvpData.schedule[1]) :
            \E m \in rsvp.ran :
                /\ rsvp.schedule[m].stream_id = RsvpData.schedule[1][n].stream_id
                /\ rsvp.schedule[m].index = RsvpData.schedule[1][n].index

(***************************************************************************)
(* rsvp: the end of the trial                                              *)
(***************************************************************************)
RsvpFinished == plugin = "rsvp" /\ finishTrial # <<>>

\* C29: every RSVP trial, once trial() has been called, calls finishTrial
\* eventually, and once; from then on no onset or offset callback runs, no
\* timer of the trial is pending and the keyboard listener is cancelled.
C29_EndsOnce ==
    /\ RsvpStarted ~> RsvpFinished
    /\ [](Len(finishTrial) <= 1)
    /\ [](RsvpFinished => timers = {} /\ keyboardListener \notin pluginAPI /\ display_element = "")
    /\ [][RsvpFinished => rsvp'.ran = rsvp.ran /\ rsvp'.gone = rsvp.gone]_vars

\* a key press ended the trial while items were still to come
C29_Witness ==
    /\ RsvpFinished
    /\ Len(rsvp.responses) = 1 /\ trial.response_ends_trial
    /\ keyboardListener = "listener"
    /\ Cardinality(rsvp.ran) < Len(rsvp.schedule)
    /\ now < 3
====
